---- MODULE Spec2Model ----
(***************************************************************************)
(* Graph synchronisation engine of KNOW-NET-COMPET: GraphLoader.sync_gold_db *)
(* (elt_core/graph_loader.py), the batch query generators                   *)
(* (elt_core/neo4j_queries.py) and the enrichment passes                    *)
(* (elt_core/graph_enrichment.py), with the Cypher statements they send     *)
(* interpreted over an in-memory property graph.                            *)
(*                                                                          *)
(* Python strings on which the code computes (ids, labels, entity-type      *)
(* names) are sequences of one-character strings, so that startswith,       *)
(* capitalize, isupper and < are computed and not assumed.                  *)
(***************************************************************************)
EXTENDS Integers, Sequences, FiniteSets, TLC

VARIABLES
    collection,                  \* documents of the gold database, in fetch order
    nodes,                       \* graph store: set of [label, props]
    edges,                       \* graph store: set of [src, dst, type, props, k]
    pc,                          \* position of the running call
    run,                         \* number of sync calls started
    all_docs,
    batch_size,
    batch_idx,
    doc_i,                       \* position of `for raw_doc in batch`
    batch_entities,              \* ordered dict: sequence of [key, items]
    batch_relationships,
    batch_success,
    batch_failed,
    ent_i,                       \* position of `for entity_type, items in batch_entities.items()`
    batch_nodes,                 \* total_created of _insert_batch_nodes
    queries,                     \* result of generate_batch_merge_relationships_query
    q_i,                         \* position of `for query, params in queries`
    batch_rels,                  \* total_created of _insert_batch_relationships
    total_nodes_created,
    total_relationships_created,
    total_docs_processed,
    total_docs_failed,
    validation_errors,
    mapper_calls,                \* spy: _ids the mapper was invoked on, this call
    node_stmts,                  \* spy: node statements sent to the store, this call
    rel_stmts,                   \* spy: relationship statements sent, this call
    run_log,                     \* one entry per returned sync call
    relationships,               \* input of generate_batch_merge_relationships_query
    generated,                   \* its output
    qpc,
    epc,                         \* position of the enrichment pass
    pairs,                       \* merge_duplicate_persons: pairs
    pair_i,
    rel_list,                    \* outgoing_rels / incoming_rels being transferred
    rel_i,
    total_rels_transferred,
    graph0,                      \* graph at the start of the enrichment pass
    enrich_log,                  \* one entry per finished enrichment function
    abort_log,                   \* one entry per run_all_enrichments call that raised
    rpc,                         \* position of BaseDataSource.run
    raw_batches,                 \* what self.extract() yields
    id_column,
    ext_i,                       \* position of `for i, raw_batch in enumerate(self.extract())`
    total_ingested,
    bronze_db,                   \* documents held by '<source>_bronze'
    silver_db,                   \* documents held by '<source>_silver'
    db_calls,                    \* spy: the calls made on db_connector, in order
    all_bronze_docs,
    clean_data,                  \* result of self.transform
    sil_i                        \* position of `for i in range(0, total_transformed, batch_size)`

syncVars == <<pc, run, all_docs, batch_size, batch_idx, doc_i, batch_entities,
              batch_relationships, batch_success, batch_failed, ent_i, batch_nodes,
              queries, q_i, batch_rels, total_nodes_created,
              total_relationships_created, total_docs_processed, total_docs_failed,
              validation_errors, mapper_calls, node_stmts, rel_stmts, run_log>>
queryVars == <<relationships, generated, qpc>>
enrichVars == <<epc, pairs, pair_i, rel_list, rel_i, total_rels_transferred, graph0,
                enrich_log, abort_log>>
storeVars == <<nodes, edges>>
runVars == <<rpc, raw_batches, id_column, ext_i, total_ingested, bronze_db, silver_db,
             db_calls, all_bronze_docs, clean_data, sil_i>>
vars == <<collection, storeVars, syncVars, queryVars, enrichVars, runVars>>

(***************************************************************************)
(* Bounds of the model.                                                    *)
(***************************************************************************)
MaxDocs == 3        \* longest gold collection
MaxRuns == 2        \* sync calls on one loader
MaxRels == 4        \* longest input list of the relationship query generator
MaxAborts == 1      \* run_all_enrichments calls that raise

(***************************************************************************)
(* Python str operations.                                                  *)
(***************************************************************************)
LowerChars == <<"a","b","c","d","e","f","g","h","i","j","k","l","m",
                "n","o","p","q","r","s","t","u","v","w","x","y","z">>
UpperChars == <<"A","B","C","D","E","F","G","H","I","J","K","L","M",
                "N","O","P","Q","R","S","T","U","V","W","X","Y","Z">>
\* code-point order of the characters that occur in ids
CharOrder == <<"0","1","2","3","4","5","6","7","8","9",":">> \o UpperChars
             \o <<"_">> \o LowerChars

Ord(c) == CHOOSE i \in 1..Len(CharOrder) : CharOrder[i] = c

IsUpperChar(c) == \E i \in 1..26 : UpperChars[i] = c

ToUpper(c) == IF \E i \in 1..26 : LowerChars[i] = c
              THEN UpperChars[CHOOSE i \in 1..26 : LowerChars[i] = c] ELSE c

ToLower(c) == IF \E i \in 1..26 : UpperChars[i] = c
              THEN LowerChars[CHOOSE i \in 1..26 : UpperChars[i] = c] ELSE c

\* str.startswith(prefix)
StartsWith(s, prefix) ==
    /\ Len(prefix) <= Len(s)
    /\ \A i \in 1..Len(prefix) : s[i] = prefix[i]

\* str.capitalize(): first character upper-cased, the rest lower-cased
Capitalize(s) == [i \in 1..Len(s) |-> IF i = 1 THEN ToUpper(s[i]) ELSE ToLower(s[i])]

\* s < t on str: lexicographic by code point
RECURSIVE StrLess(_, _)
StrLess(s, t) ==
    IF t = <<>> THEN FALSE
    ELSE IF s = <<>> THEN TRUE
    ELSE IF s[1] # t[1] THEN Ord(s[1]) < Ord(t[1])
    ELSE StrLess(Tail(s), Tail(t))

(***************************************************************************)
(* Property maps (Python dicts, Cypher maps): functions on a finite set of  *)
(* keys.                                                                   *)
(***************************************************************************)
EmptyMap == <<>>

Has(m, k) == k \in DOMAIN m

\* Cypher `SET x += m`: keys of m are written, the other keys of old are kept
MapAdd(old, m) ==
    [k \in DOMAIN old \cup DOMAIN m |-> IF k \in DOMAIN m THEN m[k] ELSE old[k]]

\* Cypher `SET x.k = v`
MapSet(old, k, v) == [j \in DOMAIN old \cup {k} |-> IF j = k THEN v ELSE old[j]]

RECURSIVE SeqFilter(_, _)
SeqFilter(s, keep) ==
    IF s = <<>> THEN <<>>
    ELSE IF Head(s) \in keep THEN <<Head(s)>> \o SeqFilter(Tail(s), keep)
    ELSE SeqFilter(Tail(s), keep)

Range(s) == {s[i] : i \in 1..Len(s)}

(***************************************************************************)
(* The graph store.  A node is [label, props]; its id is props["id"].  An  *)
(* edge names its endpoints by (label, id); k tells parallel edges of one  *)
(* identity apart.                                                         *)
(***************************************************************************)
NodeKey(n) == [label |-> n.label, id |-> n.props["id"]]

\* MATCH (x:label {id: id})
MatchNodes(ns, label, id) ==
    {n \in ns : n.label = label /\ Has(n.props, "id") /\ n.props["id"] = id}

\* MATCH (x {id: id}), any label
MatchAnyLabel(ns, id) == {n \in ns : Has(n.props, "id") /\ n.props["id"] = id}

\* edges (src)-[:type]->(dst)
MatchEdges(es, src, dst, type) ==
    {e \in es : e.src = src /\ e.dst = dst /\ e.type = type}

NewEdge(es, src, dst, type, props) ==
    [src |-> src, dst |-> dst, type |-> type, props |-> props,
     k |-> Cardinality(MatchEdges(es, src, dst, type)) + 1]

(***************************************************************************)
(* generate_batch_merge_nodes_query, as the store executes it:             *)
(*   UNWIND $batch AS item  MERGE (n:label {id: item.id})  SET n = item     *)
(*   RETURN count(n) AS created_count                                       *)
(***************************************************************************)
\* one row: MERGE binds the matching nodes or creates one; SET n = item
\* replaces the whole property map
\* (variant: SET n += item, a field-by-field merge)
MergeNodeRowAdditive(ns, label, item) ==
    LET hit == MatchNodes(ns, label, item["id"])
    IN  [nodes |-> (ns \ hit)
                   \cup (IF hit = {} THEN {[label |-> label, props |-> item]}
                         ELSE {[label |-> label, props |-> MapAdd(n.props, item)] : n \in hit}),
         rows  |-> IF hit = {} THEN 1 ELSE Cardinality(hit)]

MergeNodeRow(ns, label, item) ==
    LET hit == MatchNodes(ns, label, item["id"])
    IN  [nodes |-> (ns \ hit) \cup {[label |-> label, props |-> item]},
         rows  |-> IF hit = {} THEN 1 ELSE Cardinality(hit)]

RECURSIVE RunNodeQuery(_, _, _)
RunNodeQuery(ns, label, batch) ==
    IF batch = <<>> THEN [nodes |-> ns, created_count |-> 0]
    ELSE LET r    == MergeNodeRow(ns, label, Head(batch))
             rest == RunNodeQuery(r.nodes, label, Tail(batch))
         IN  [nodes |-> rest.nodes, created_count |-> r.rows + rest.created_count]

(***************************************************************************)
(* generate_batch_merge_relationships_query                                *)
(***************************************************************************)
\* grouped: dict rel_type -> list, in order of first occurrence
RECURSIVE RelTypesInOrder(_)
RelTypesInOrder(rels) ==
    IF rels = <<>> THEN <<>>
    ELSE LET t == Head(rels).rel_type
         IN  <<t>> \o RelTypesInOrder(SeqFilter(Tail(rels),
                                   {r \in Range(Tail(rels)) : r.rel_type # t}))

\* (variant: one statement per relationship, no grouping)
GenerateRelQueriesUngrouped(rels) ==
    [i \in 1..Len(rels) |->
        [rel_type   |-> rels[i].rel_type,
         from_label |-> rels[i].from_label,
         to_label   |-> rels[i].to_label,
         batch      |-> <<rels[i]>>]]

GroupOfType(rels, t) == SeqFilter(rels, {r \in Range(rels) : r.rel_type = t})

generate_batch_merge_relationships_query(rels) ==
    LET types == RelTypesInOrder(rels)
    IN  [i \in 1..Len(types) |->
            LET g == GroupOfType(rels, types[i])
            IN  [rel_type   |-> types[i],
                 from_label |-> g[1].from_label,
                 to_label   |-> g[1].to_label,
                 batch      |-> g]]


(***************************************************************************)
(* One relationship statement, as the store executes it:                   *)
(*   UNWIND $batch AS item                                                  *)
(*   MATCH (from:from_label {id: item.from_id})                             *)
(*   MATCH (to:to_label {id: item.to_id})                                   *)
(*   MERGE (from)-[r:rel_type]->(to)   RETURN count(r) AS created_count     *)
(* The statement has no SET clause: item.properties is not read.           *)
(***************************************************************************)
\* (variant: CREATE in place of MERGE)
MergeEdgeAlwaysCreate(es, src, dst, type) ==
    [edges |-> es \cup {NewEdge(es, src, dst, type, EmptyMap)}, rows |-> 1]

\* MERGE (from)-[r:type]->(to) for one bound pair of nodes
MergeEdge(es, src, dst, type) ==
    LET hit == MatchEdges(es, src, dst, type)
    IN  IF hit = {} THEN [edges |-> es \cup {NewEdge(es, src, dst, type, EmptyMap)},
                          rows  |-> 1]
        ELSE [edges |-> es, rows |-> Cardinality(hit)]

RECURSIVE MergeEdgePairs(_, _, _)
MergeEdgePairs(es, prs, type) ==
    IF prs = {} THEN [edges |-> es, rows |-> 0]
    ELSE LET p    == CHOOSE x \in prs : TRUE
             r    == MergeEdge(es, p[1], p[2], type)
             rest == MergeEdgePairs(r.edges, prs \ {p}, type)
         IN  [edges |-> rest.edges, rows |-> r.rows + rest.rows]

\* (variant: the edge is merged between the named endpoints without matching
\* them first)
RelRowUnmatched(ns, es, q, item) ==
    MergeEdgePairs(es, {<<[label |-> q.from_label, id |-> item.from_id],
                          [label |-> q.to_label, id |-> item.to_id]>>}, q.rel_type)

RelRow(ns, es, q, item) ==
    LET froms == MatchNodes(ns, q.from_label, item.from_id)
        tos   == MatchNodes(ns, q.to_label, item.to_id)
    IN  MergeEdgePairs(es, {<<NodeKey(f), NodeKey(t)>> : f \in froms, t \in tos},
                       q.rel_type)

RECURSIVE RunRelBatch(_, _, _, _)
RunRelBatch(ns, es, q, batch) ==
    IF batch = <<>> THEN [edges |-> es, created_count |-> 0]
    ELSE LET r    == RelRow(ns, es, q, Head(batch))
             rest == RunRelBatch(ns, r.edges, q, Tail(batch))
         IN  [edges |-> rest.edges, created_count |-> r.rows + rest.created_count]

RunRelQuery(ns, es, q) == RunRelBatch(ns, es, q, q.batch)

(***************************************************************************)
(* The gold documents and the mapper.  A raw document is [_id, body]; the   *)
(* mapper (doc_mapper_func) is a deterministic function of the document:    *)
(* it raises, or returns a graph batch, an ordered dict given as a sequence *)
(* of [key, items].                                                        *)
(***************************************************************************)
person == <<"p","e","r","s","o","n">>
Person == <<"P","e","r","s","o","n">>
entity == <<"e","n","t","i","t","y">>
Entity == <<"E","n","t","i","t","y">>
Tender == <<"T","e","n","d","e","r">>
RelationshipsKey == <<"r","e","l","a","t","i","o","n","s","h","i","p","s">>
p1 == <<"p","1">>
p9 == <<"p","9">>
e1 == <<"e","1">>

\* mapper_utils.build_relationships_one_to_one
build_relationships_one_to_one(from_label, from_id, to_label, to_id, rel_type, properties) ==
    LET result == [from_label |-> from_label, from_id |-> from_id,
                   to_label |-> to_label, to_id |-> to_id, rel_type |-> rel_type]
    IN  IF properties # EmptyMap THEN result @@ ("properties" :> properties)
        ELSE result

RelAssoc == build_relationships_one_to_one(Person, p1, Entity, e1, "ASSOCIATED_WITH",
                                           [role |-> <<"r">>])
RelAssocBack == build_relationships_one_to_one(Entity, e1, Person, p1, "ASSOCIATED_WITH",
                                               EmptyMap)
RelKnows == build_relationships_one_to_one(Person, p1, Entity, e1, "KNOWS", EmptyMap)

DocDesign == [_id |-> <<"_","d">>, body |-> "design"]
DocAlice  == [_id |-> <<"a">>, body |-> "alice"]
DocAcme   == [_id |-> <<"b">>, body |-> "acme"]
DocAlias  == [_id |-> <<"c">>, body |-> "alias"]
DocBad    == [_id |-> <<"d">>, body |-> "bad"]

DocPool == {DocDesign, DocAlice, DocAcme, DocAlias, DocBad}

doc_mapper_func(raw_doc) ==
    CASE raw_doc.body = "design" ->
            [raises |-> FALSE,
             batch  |-> << [key |-> person, items |-> << [id |-> p9] >>] >>]
      [] raw_doc.body = "alice" ->
            [raises |-> FALSE,
             batch  |-> << [key |-> person, items |-> << [id |-> p1, name |-> <<"x">>] >>],
                           [key |-> RelationshipsKey, items |-> << RelAssoc >>] >>]
      [] raw_doc.body = "acme" ->
            [raises |-> FALSE,
             batch  |-> << [key |-> entity, items |-> << [id |-> e1] >>],
                           [key |-> RelationshipsKey, items |-> <<>>] >>]
      [] raw_doc.body = "alias" ->
            [raises |-> FALSE,
             batch  |-> << [key |-> person,
                            items |-> << [name |-> <<"q">>],
                                         [id |-> p1, nick |-> <<"z">>],
                                         [id |-> <<>>, name |-> <<"q">>] >>],
                           [key |-> Person, items |-> << [id |-> p1, name |-> <<"w">>] >>],
                           [key |-> Tender, items |-> << [title |-> <<"t">>] >>],
                           [key |-> RelationshipsKey,
                            items |-> << RelKnows, RelAssoc, RelAssocBack >>] >>]
      [] OTHER ->
            [raises |-> TRUE, batch |-> <<>>]

\* the collections the connector may hold: documents have distinct _ids
Collections ==
    {c \in UNION {[1..n -> DocPool] : n \in 0..MaxDocs} :
        \A i, j \in 1..Len(c) : i # j => c[i] # c[j]}

(***************************************************************************)
(* GraphLoader.sync_gold_db                                                *)
(***************************************************************************)
ReservedPrefix == <<"_">>

\* (variant: a window holds its first record only)
WindowFirstOnly(docs, idx, size) == SubSeq(docs, idx + 1, idx + 1)

\* all_docs[batch_idx:batch_idx + batch_size], batch_idx counted from 0
Window(docs, idx, size) ==
    SubSeq(docs, idx + 1, IF idx + size < Len(docs) THEN idx + size ELSE Len(docs))

\* (variant: the reserved-prefix test is missing)
IsReservedNever(raw_doc) == FALSE

\* raw_doc.get('_id', '').startswith('_')
IsReserved(raw_doc) == StartsWith(raw_doc._id, ReservedPrefix)

\* (variant: every record's items are kept as a list of their own)
ExtendEntitiesAlwaysNew(ents, key, items) ==
    Append(ents, [key |-> key, items |-> items])

\* batch_entities[entity_type].extend(items), creating the key on first use
ExtendEntities(ents, key, items) ==
    IF \E i \in 1..Len(ents) : ents[i].key = key
    THEN [i \in 1..Len(ents) |->
             IF ents[i].key = key THEN [ents[i] EXCEPT !.items = @ \o items] ELSE ents[i]]
    ELSE Append(ents, [key |-> key, items |-> items])

\* the accumulation loop over graph_batch.items()
RECURSIVE Accumulate(_, _, _)
Accumulate(ents, rels, gb) ==
    IF gb = <<>> THEN [entities |-> ents, relationships |-> rels]
    ELSE LET e == Head(gb)
         IN  IF e.key = RelationshipsKey
             THEN Accumulate(ents, rels \o e.items, Tail(gb))
             ELSE IF e.items # <<>>
             THEN Accumulate(ExtendEntities(ents, e.key, e.items), rels, Tail(gb))
             ELSE Accumulate(ents, rels, Tail(gb))

\* (variant: the last item of an id wins)
RECURSIVE DedupLastWins(_, _)
DedupLastWins(items, seen) ==
    IF items = <<>> THEN <<>>
    ELSE LET item == Head(items)
             later == {Tail(items)[i]["id"] :
                        i \in {j \in 1..Len(Tail(items)) : Has(Tail(items)[j], "id")}}
         IN  IF Has(item, "id") /\ item["id"] # <<>> /\ item["id"] \notin later
             THEN <<item>> \o DedupLastWins(Tail(items), seen)
             ELSE DedupLastWins(Tail(items), seen)

\* (variant: an item without id ends the list)
RECURSIVE DedupStopsAtBadItem(_, _)
DedupStopsAtBadItem(items, seen) ==
    IF items = <<>> THEN <<>>
    ELSE LET item == Head(items)
         IN  IF ~(Has(item, "id") /\ item["id"] # <<>>) THEN <<>>
             ELSE IF item["id"] \notin seen
             THEN <<item>> \o DedupStopsAtBadItem(Tail(items), seen \cup {item["id"]})
             ELSE DedupStopsAtBadItem(Tail(items), seen)

\* _insert_batch_nodes, "Deduplicate items by ID": unique_items
RECURSIVE Dedup(_, _)
Dedup(items, seen) ==
    IF items = <<>> THEN <<>>
    ELSE LET item == Head(items)
         IN  IF Has(item, "id") /\ item["id"] # <<>> /\ item["id"] \notin seen
             THEN <<item>> \o Dedup(Tail(items), seen \cup {item["id"]})
             ELSE Dedup(Tail(items), seen)

\* _insert_batch_nodes, "Get label"
LabelOf(entity_type) ==
    IF IsUpperChar(entity_type[1]) THEN entity_type ELSE Capitalize(entity_type)

Graph == [nodes |-> nodes, edges |-> edges]

StmtSeq == Len(node_stmts) + Len(rel_stmts) + 1

\* what the spy records of one sync call
RunEntry(bs) ==
    [fetched |-> FALSE, returned |-> FALSE, clean |-> TRUE, batch_size |-> bs,
     docs |-> collection, before |-> Graph, after |-> Graph,
     nodes_created |-> 0, rels_created |-> 0, processed |-> 0, failed |-> 0,
     errors |-> <<>>, mapped |-> <<>>, all_matched |-> TRUE]

\* state of one window's accumulators at the start of the window
StartWindow(idx) ==
    /\ batch_idx' = idx
    /\ doc_i' = 1
    /\ batch_entities' = <<>>
    /\ batch_relationships' = <<>>
    /\ batch_success' = 0
    /\ batch_failed' = 0

NoWindow ==
    UNCHANGED <<batch_idx, doc_i, batch_entities, batch_relationships, batch_success,
                batch_failed>>

\* the call, up to the first window: fetch, reset of the error list and of the totals
FetchOk(bs) ==
    /\ pc = "ready"
    /\ run > 0 => bs = batch_size
    /\ run' = run + 1
    /\ batch_size' = bs
    /\ all_docs' = collection
    /\ validation_errors' = <<>>
    /\ total_nodes_created' = 0
    /\ total_relationships_created' = 0
    /\ total_docs_processed' = 0
    /\ total_docs_failed' = 0
    /\ mapper_calls' = <<>>
    /\ node_stmts' = <<>>
    /\ rel_stmts' = <<>>
    /\ run_log' = Append(run_log, [RunEntry(bs) EXCEPT !.fetched = TRUE])
    /\ IF Len(collection) > 0
       THEN StartWindow(0) /\ pc' = "map"
       ELSE NoWindow /\ pc' = "summary"
    /\ UNCHANGED <<collection, storeVars, ent_i, batch_nodes, queries, q_i, batch_rels,
                   queryVars, enrichVars, runVars>>

\* (variant: the except branch does not return, the call goes on to the windows)
FetchFailNoReturn(bs) ==
    /\ pc = "ready"
    /\ run > 0 => bs = batch_size
    /\ run' = run + 1
    /\ batch_size' = bs
    /\ all_docs' = collection
    /\ mapper_calls' = <<>>
    /\ node_stmts' = <<>>
    /\ rel_stmts' = <<>>
    /\ run_log' = Append(run_log, RunEntry(bs))
    /\ IF Len(collection) > 0
       THEN StartWindow(0) /\ pc' = "map"
       ELSE NoWindow /\ pc' = "summary"
    /\ UNCHANGED <<collection, storeVars, ent_i, batch_nodes, queries, q_i, batch_rels,
                   total_nodes_created, total_relationships_created,
                   total_docs_processed, total_docs_failed, validation_errors,
                   queryVars, enrichVars, runVars>>

\* connector.get_all_documents raises: logged, the call returns
FetchFail(bs) ==
    /\ pc = "ready"
    /\ run > 0 => bs = batch_size
    /\ run' = run + 1
    /\ batch_size' = bs
    /\ mapper_calls' = <<>>
    /\ node_stmts' = <<>>
    /\ rel_stmts' = <<>>
    /\ run_log' = Append(run_log,
          [RunEntry(bs) EXCEPT !.returned = TRUE, !.errors = validation_errors])
    /\ UNCHANGED <<collection, storeVars, pc, all_docs, batch_idx, doc_i, batch_entities,
                   batch_relationships, batch_success, batch_failed, ent_i, batch_nodes,
                   queries, q_i, batch_rels, total_nodes_created,
                   total_relationships_created, total_docs_processed, total_docs_failed,
                   validation_errors, queryVars, enrichVars, runVars>>

CurrentBatch == Window(all_docs, batch_idx, batch_size)

\* after the last document of the window the node flush starts
AfterDoc ==
    /\ doc_i' = doc_i + 1
    /\ IF doc_i = Len(CurrentBatch)
       THEN pc' = "nodes" /\ ent_i' = 1 /\ batch_nodes' = 0
       ELSE pc' = "map" /\ UNCHANGED <<ent_i, batch_nodes>>

MapFrame ==
    UNCHANGED <<collection, storeVars, run, all_docs, batch_size, batch_idx, queries, q_i,
                batch_rels, total_nodes_created, total_relationships_created,
                total_docs_processed, total_docs_failed, node_stmts, rel_stmts, run_log,
                queryVars, enrichVars, runVars>>

\* one iteration of `for raw_doc in batch`, reserved _id: continue
SkipReserved ==
    /\ pc = "map"
    /\ IsReserved(CurrentBatch[doc_i])
    /\ AfterDoc
    /\ UNCHANGED <<batch_entities, batch_relationships, batch_success, batch_failed,
                   validation_errors, mapper_calls>>
    /\ MapFrame

\* one iteration, the mapper returns
MapDocOk ==
    /\ pc = "map"
    /\ LET raw_doc == CurrentBatch[doc_i]
           res     == doc_mapper_func(raw_doc)
           acc     == Accumulate(batch_entities, batch_relationships, res.batch)
       IN  /\ ~IsReserved(raw_doc)
           /\ ~res.raises
           /\ mapper_calls' = Append(mapper_calls, raw_doc._id)
           /\ batch_entities' = acc.entities
           /\ batch_relationships' = acc.relationships
           /\ batch_success' = batch_success + 1
    /\ AfterDoc
    /\ UNCHANGED <<batch_failed, validation_errors>>
    /\ MapFrame

\* (variant: the exception ends the mapping of the window)
MapDocRaiseAborts ==
    /\ pc = "map"
    /\ LET raw_doc == CurrentBatch[doc_i]
           res     == doc_mapper_func(raw_doc)
       IN  /\ ~IsReserved(raw_doc)
           /\ res.raises
           /\ mapper_calls' = Append(mapper_calls, raw_doc._id)
           /\ validation_errors' = Append(validation_errors, [doc_id |-> raw_doc._id])
           /\ batch_failed' = batch_failed + 1
    /\ doc_i' = Len(CurrentBatch) + 1
    /\ pc' = "nodes" /\ ent_i' = 1 /\ batch_nodes' = 0
    /\ UNCHANGED <<batch_entities, batch_relationships, batch_success>>
    /\ MapFrame

\* one iteration, the mapper raises
MapDocRaise ==
    /\ pc = "map"
    /\ LET raw_doc == CurrentBatch[doc_i]
           res     == doc_mapper_func(raw_doc)
       IN  /\ ~IsReserved(raw_doc)
           /\ res.raises
           /\ mapper_calls' = Append(mapper_calls, raw_doc._id)
           /\ validation_errors' = Append(validation_errors, [doc_id |-> raw_doc._id])
           /\ batch_failed' = batch_failed + 1
    /\ AfterDoc
    /\ UNCHANGED <<batch_entities, batch_relationships, batch_success>>
    /\ MapFrame

(***************************************************************************)
(* GraphLoader._insert_batch_nodes: one iteration of the loop over          *)
(* batch_entities per step.  session.run may raise (a store failure); the   *)
(* statement then changes nothing and the loop goes on.                     *)
(***************************************************************************)
CurrentEntity == batch_entities[ent_i]

UniqueItems == Dedup(CurrentEntity.items, {})

NodeStmt(ok, count) ==
    [seq |-> StmtSeq, window |-> batch_idx, entity_type |-> CurrentEntity.key,
     label |-> LabelOf(CurrentEntity.key), batch |-> UniqueItems, ok |-> ok,
     created_count |-> count]

NodesFrame ==
    UNCHANGED <<collection, run, all_docs, batch_size, batch_idx, doc_i, batch_entities,
                batch_relationships, batch_success, batch_failed, queries, q_i,
                batch_rels, total_nodes_created, total_relationships_created,
                total_docs_processed, total_docs_failed, validation_errors, mapper_calls,
                rel_stmts, run_log, queryVars, enrichVars, runVars>>

\* `if not unique_items: continue`
NodeStmtSkip ==
    /\ pc = "nodes"
    /\ ent_i <= Len(batch_entities)
    /\ UniqueItems = <<>>
    /\ ent_i' = ent_i + 1
    /\ UNCHANGED <<pc, storeVars, batch_nodes, node_stmts>>
    /\ NodesFrame

NodeStmtOk ==
    /\ pc = "nodes"
    /\ ent_i <= Len(batch_entities)
    /\ UniqueItems # <<>>
    /\ LET r == RunNodeQuery(nodes, LabelOf(CurrentEntity.key), UniqueItems)
       IN  /\ nodes' = r.nodes
           /\ batch_nodes' = batch_nodes + r.created_count
           /\ node_stmts' = Append(node_stmts, NodeStmt(TRUE, r.created_count))
    /\ ent_i' = ent_i + 1
    /\ UNCHANGED <<pc, edges>>
    /\ NodesFrame

\* (variant: a failed node statement ends the node flush of the window)
NodeStmtFailAborts ==
    /\ pc = "nodes"
    /\ ent_i <= Len(batch_entities)
    /\ UniqueItems # <<>>
    /\ node_stmts' = Append(node_stmts, NodeStmt(FALSE, 0))
    /\ ent_i' = Len(batch_entities) + 1
    /\ UNCHANGED <<pc, storeVars, batch_nodes>>
    /\ NodesFrame

NodeStmtFail ==
    /\ pc = "nodes"
    /\ ent_i <= Len(batch_entities)
    /\ UniqueItems # <<>>
    /\ node_stmts' = Append(node_stmts, NodeStmt(FALSE, 0))
    /\ ent_i' = ent_i + 1
    /\ UNCHANGED <<pc, storeVars, batch_nodes>>
    /\ NodesFrame

\* (variant: the relationship flush may start while node statements remain)
NodesDoneEarly ==
    /\ pc = "nodes"
    /\ ent_i <= Len(batch_entities) + 1
    /\ total_nodes_created' = total_nodes_created + batch_nodes
    /\ batch_rels' = 0
    /\ q_i' = 1
    /\ IF batch_relationships # <<>>
       THEN /\ queries' = generate_batch_merge_relationships_query(batch_relationships)
            /\ pc' = "rels"
       ELSE /\ queries' = <<>>
            /\ pc' = "stats"
    /\ UNCHANGED <<collection, storeVars, run, all_docs, batch_size, batch_idx, doc_i,
                   batch_entities, batch_relationships, batch_success, batch_failed,
                   ent_i, batch_nodes, total_relationships_created,
                   total_docs_processed, total_docs_failed, validation_errors,
                   mapper_calls, node_stmts, rel_stmts, run_log, queryVars,
                   enrichVars, runVars>>

\* _insert_batch_nodes returns; `if batch_relationships:` starts the
\* relationship flush, whose first step builds the statements
NodesDone ==
    /\ pc = "nodes"
    /\ ent_i > Len(batch_entities)
    /\ total_nodes_created' = total_nodes_created + batch_nodes
    /\ batch_rels' = 0
    /\ q_i' = 1
    /\ IF batch_relationships # <<>>
       THEN /\ queries' = generate_batch_merge_relationships_query(batch_relationships)
            /\ pc' = "rels"
       ELSE /\ queries' = <<>>
            /\ pc' = "stats"
    /\ UNCHANGED <<collection, storeVars, run, all_docs, batch_size, batch_idx, doc_i,
                   batch_entities, batch_relationships, batch_success, batch_failed,
                   ent_i, batch_nodes, total_relationships_created,
                   total_docs_processed, total_docs_failed, validation_errors,
                   mapper_calls, node_stmts, rel_stmts, run_log, queryVars,
                   enrichVars, runVars>>

(***************************************************************************)
(* GraphLoader._insert_batch_relationships: one statement per step.  The   *)
(* try block encloses the whole loop: a statement that raises ends the     *)
(* flush, and the function returns 0.                                      *)
(***************************************************************************)
RelStmt(ok, count) ==
    [seq |-> StmtSeq, window |-> batch_idx, rel_type |-> queries[q_i].rel_type,
     from_label |-> queries[q_i].from_label, to_label |-> queries[q_i].to_label,
     batch |-> queries[q_i].batch, ok |-> ok, created_count |-> count]

RelsFrame ==
    UNCHANGED <<collection, run, all_docs, batch_size, batch_idx, doc_i, batch_entities,
                batch_relationships, batch_success, batch_failed, ent_i, batch_nodes,
                queries, total_nodes_created, total_docs_processed, total_docs_failed,
                validation_errors, mapper_calls, node_stmts, run_log, queryVars,
                enrichVars, runVars>>

RelStmtOk ==
    /\ pc = "rels"
    /\ q_i <= Len(queries)
    /\ LET r == RunRelQuery(nodes, edges, queries[q_i])
       IN  /\ edges' = r.edges
           /\ batch_rels' = batch_rels + r.created_count
           /\ rel_stmts' = Append(rel_stmts, RelStmt(TRUE, r.created_count))
    /\ q_i' = q_i + 1
    /\ UNCHANGED <<pc, nodes, total_relationships_created>>
    /\ RelsFrame

RelStmtFail ==
    /\ pc = "rels"
    /\ q_i <= Len(queries)
    /\ rel_stmts' = Append(rel_stmts, RelStmt(FALSE, 0))
    /\ batch_rels' = 0
    /\ pc' = "stats"
    /\ UNCHANGED <<storeVars, q_i, total_relationships_created>>
    /\ RelsFrame

RelsDone ==
    /\ pc = "rels"
    /\ q_i > Len(queries)
    /\ total_relationships_created' = total_relationships_created + batch_rels
    /\ pc' = "stats"
    /\ UNCHANGED <<storeVars, q_i, batch_rels, rel_stmts>>
    /\ RelsFrame

(***************************************************************************)
(* sync_gold_db: "Update statistics", the next window, the summary.        *)
(***************************************************************************)
WindowDone ==
    /\ pc = "stats"
    /\ total_docs_processed' = total_docs_processed + batch_success
    /\ total_docs_failed' = total_docs_failed + batch_failed
    /\ IF batch_idx + batch_size < Len(all_docs)
       THEN StartWindow(batch_idx + batch_size) /\ pc' = "map"
       ELSE NoWindow /\ pc' = "summary"
    /\ UNCHANGED <<collection, storeVars, run, all_docs, batch_size, ent_i, batch_nodes,
                   queries, q_i, batch_rels, total_nodes_created,
                   total_relationships_created, validation_errors, mapper_calls,
                   node_stmts, rel_stmts, run_log, queryVars, enrichVars, runVars>>

Summary ==
    /\ pc = "summary"
    /\ pc' = "ready"
    /\ run_log' = [run_log EXCEPT ![Len(run_log)] =
          [@ EXCEPT !.returned = TRUE,
                    !.clean = /\ \A i \in 1..Len(node_stmts) : node_stmts[i].ok
                              /\ \A i \in 1..Len(rel_stmts) : rel_stmts[i].ok,
                    !.after = Graph,
                    !.nodes_created = total_nodes_created,
                    !.rels_created = total_relationships_created,
                    !.processed = total_docs_processed,
                    !.failed = total_docs_failed,
                    !.errors = validation_errors,
                    !.mapped = mapper_calls,
                    !.all_matched = \A i \in 1..Len(rel_stmts) :
                        rel_stmts[i].created_count = Len(rel_stmts[i].batch)]]
    /\ UNCHANGED <<collection, storeVars, run, all_docs, batch_size, batch_idx, doc_i,
                   batch_entities, batch_relationships, batch_success, batch_failed,
                   ent_i, batch_nodes, queries, q_i, batch_rels, total_nodes_created,
                   total_relationships_created, total_docs_processed, total_docs_failed,
                   validation_errors, mapper_calls, node_stmts, rel_stmts, queryVars,
                   enrichVars, runVars>>

\* the summary divides by total_time = time.time() - batch_start_time
\* (`fetch_time/total_time*100`, `total_docs_processed/total_time`) without
\* the `if elapsed > 0` guard of the window loop.  With no record fetched no
\* window runs between the two clock reads, and the difference of two
\* time.time() floats can be 0.0: ZeroDivisionError leaves sync_gold_db, and
\* run_graph_loader's except ends the whole load
SummaryRaises ==
    /\ pc = "summary"
    /\ all_docs = <<>>
    /\ pc' = "raised"
    /\ UNCHANGED <<collection, storeVars, run, all_docs, batch_size, batch_idx, doc_i,
                   batch_entities, batch_relationships, batch_success, batch_failed,
                   ent_i, batch_nodes, queries, q_i, batch_rels, total_nodes_created,
                   total_relationships_created, total_docs_processed, total_docs_failed,
                   validation_errors, mapper_calls, node_stmts, rel_stmts, run_log,
                   queryVars, enrichVars, runVars>>

BatchSizes == 1..MaxDocs

QueryIdle == relationships = <<>> /\ generated = <<>> /\ qpc = "off"

EnrichIdle ==
    /\ epc = "off" /\ pairs = <<>> /\ pair_i = 0 /\ rel_list = <<>> /\ rel_i = 0
    /\ total_rels_transferred = 0 /\ graph0 = [nodes |-> {}, edges |-> {}]
    /\ enrich_log = <<>> /\ abort_log = <<>>

RunIdle ==
    /\ rpc = "off" /\ raw_batches = <<>> /\ id_column = "" /\ ext_i = 0
    /\ total_ingested = 0 /\ bronze_db = <<>> /\ silver_db = <<>> /\ db_calls = <<>>
    /\ all_bronze_docs = <<>> /\ clean_data = [kind |-> "none", items |-> <<>>]
    /\ sil_i = 0

SyncIdle ==
    /\ pc = "ready"
    /\ run = 0
    /\ all_docs = <<>>
    /\ batch_size = 1
    /\ batch_idx = 0
    /\ doc_i = 1
    /\ batch_entities = <<>>
    /\ batch_relationships = <<>>
    /\ batch_success = 0
    /\ batch_failed = 0
    /\ ent_i = 1
    /\ batch_nodes = 0
    /\ queries = <<>>
    /\ q_i = 1
    /\ batch_rels = 0
    /\ total_nodes_created = 0
    /\ total_relationships_created = 0
    /\ total_docs_processed = 0
    /\ total_docs_failed = 0
    /\ validation_errors = <<>>
    /\ mapper_calls = <<>>
    /\ node_stmts = <<>>
    /\ rel_stmts = <<>>
    /\ run_log = <<>>

Init ==
    /\ collection \in Collections
    /\ nodes = {}
    /\ edges = {}
    /\ SyncIdle
    /\ QueryIdle
    /\ EnrichIdle
    /\ RunIdle

\* the steps of a call after its fetch, while the store answers
Steps ==
    \/ SkipReserved
    \/ MapDocOk
    \/ MapDocRaise
    \/ NodeStmtSkip
    \/ NodeStmtOk
    \/ NodesDone
    \/ RelStmtOk
    \/ RelsDone
    \/ WindowDone
    \/ Summary
    \/ SummaryRaises

\* Spec: the first sync call on a fresh loader and an empty graph; the fetch
\* and every statement may fail
Next ==
    \/ \E bs \in BatchSizes : run = 0 /\ FetchOk(bs)
    \/ \E bs \in BatchSizes : run = 0 /\ FetchFail(bs)
    \/ Steps
    \/ NodeStmtFail
    \/ RelStmtFail

Spec == Init /\ [][Next]_vars

\* SpecLive: the same call under the scheduling of the code: sync_gold_db is
\* one sequential function, so once called it keeps taking its next step
\* (whichever of the outcomes of that step happens) until it returns or raises
CallSteps == Steps \/ NodeStmtFail \/ RelStmtFail

SpecLive == Init /\ [][Next]_vars /\ WF_vars(CallSteps)

\* SpecRerun: successive sync calls of one loader on the same collection, as
\* run_graph_loader makes them (one batch size); a fetch may fail, the store
\* does not
NextRerun ==
    \/ \E bs \in BatchSizes : run < MaxRuns /\ FetchOk(bs)
    \/ \E bs \in BatchSizes : run < MaxRuns /\ FetchFail(bs)
    \/ Steps

SpecRerun == Init /\ [][NextRerun]_vars

(***************************************************************************)
(* SpecQuery: generate_batch_merge_relationships_query applied to every    *)
(* list of at most MaxRels relationships over two endpoint labels and      *)
(* three types.                                                            *)
(***************************************************************************)
RelUniverse ==
    {build_relationships_one_to_one(fl, p1, Entity, e1, t, EmptyMap) :
        fl \in {Person, Entity}, t \in {"ASSOCIATED_WITH", "KNOWS", "OWNS"}}

RelLists == UNION {[1..n -> RelUniverse] : n \in 0..MaxRels}

InitQuery ==
    /\ collection = <<>>
    /\ nodes = {}
    /\ edges = {}
    /\ SyncIdle
    /\ relationships \in RelLists
    /\ generated = <<>>
    /\ qpc = "input"
    /\ EnrichIdle
    /\ RunIdle

Generate ==
    /\ qpc = "input"
    /\ generated' = generate_batch_merge_relationships_query(relationships)
    /\ qpc' = "done"
    /\ UNCHANGED <<collection, storeVars, syncVars, relationships, enrichVars, runVars>>

NextQuery == Generate

SpecQuery == InitQuery /\ [][NextQuery]_vars

(***************************************************************************)
(* Graph enrichment (elt_core/graph_enrichment.py), statement by statement *)
(* as the store executes it.                                               *)
(***************************************************************************)
MaxPasses == 2      \* calls of run_all_enrichments on one graph

PepPrefix == <<"p","e","p",":">>

\* person.id STARTS WITH "pep:"
IsPepId(id) == StartsWith(id, PepPrefix)

\* p.person_name as a grouping key: <<v>>, or <<>> for null
PersonName(n) ==
    IF Has(n.props, "person_name") THEN <<n.props["person_name"]>> ELSE <<>>

\* the orders in which the store may return the rows S
Perms(S) ==
    {f \in [1..Cardinality(S) -> S] :
        \A i, j \in 1..Cardinality(S) : i # j => f[i] # f[j]}

\* MATCH (e:Entity)<-[:ASSOCIATED_WITH]-(p:Person): the nodes p
AssociatedPersons(ns, es) ==
    {p \in ns : /\ p.label = Person
                /\ Has(p.props, "id")
                /\ \E e \in es : /\ e.type = "ASSOCIATED_WITH"
                                 /\ e.src = NodeKey(p)
                                 /\ e.dst.label = Entity}

\* collect(DISTINCT p) of one name
PeopleOf(ns, es, name) == {p \in AssociatedPersons(ns, es) : PersonName(p) = name}

PepsOf(ns, es, name) == {p \in PeopleOf(ns, es, name) : IsPepId(p.props["id"])}

NonPepsOf(ns, es, name) == {p \in PeopleOf(ns, es, name) : ~IsPepId(p.props["id"])}

\* the names whose group passes the WHERE of find_duplicates_query
DuplicateGroups(ns, es) ==
    {name \in {PersonName(p) : p \in AssociatedPersons(ns, es)} :
        /\ Cardinality(PeopleOf(ns, es, name)) > 1
        /\ PepsOf(ns, es, name) # {}
        /\ NonPepsOf(ns, es, name) # {}}

\* the rows of find_duplicates_query when canon[name] is the [0] of the
\* group's non-pep members
PairRows(ns, es, canon) ==
    UNION {{[canonical_id |-> canon[name].props["id"],
             duplicate_id |-> d.props["id"]] : d \in PepsOf(ns, es, name)} :
           name \in DuplicateGroups(ns, es)}

\* the results find_duplicates_query can return: collect() fixes no order,
\* so any non-pep member may be the canonical and the rows come in any order
find_duplicates_query(ns, es) ==
    UNION {Perms(PairRows(ns, es, canon)) :
           canon \in {f \in [DuplicateGroups(ns, es) -> ns] :
                        \A name \in DuplicateGroups(ns, es) :
                            f[name] \in NonPepsOf(ns, es, name)}}

\* merge_props_query: SET canonical.pep = true,
\* canonical.person_name = COALESCE(canonical.person_name, dup.person_name)
merge_props_query(ns, canonical_id, duplicate_id) ==
    LET cs == MatchNodes(ns, Person, canonical_id)
        ds == MatchNodes(ns, Person, duplicate_id)
        named == {d \in ds : Has(d.props, "person_name")}
        Upd(c) ==
            LET flagged == MapSet(c.props, "pep", TRUE)
            IN  [c EXCEPT !.props =
                    IF Has(c.props, "person_name") \/ named = {} THEN flagged
                    ELSE MapSet(flagged, "person_name",
                                (CHOOSE d \in named : TRUE).props["person_name"])]
    IN  IF cs = {} \/ ds = {} THEN ns
        ELSE (ns \ cs) \cup {Upd(c) : c \in cs}

\* the rows of get_outgoing_query: the edges (dup:Person {id})-[r]->(target)
OutgoingOf(ns, es, duplicate_id) ==
    {e \in es : \E d \in MatchNodes(ns, Person, duplicate_id) : e.src = NodeKey(d)}

\* the rows of get_incoming_query: the edges (source)-[r]->(dup:Person {id})
IncomingOf(ns, es, duplicate_id) ==
    {e \in es : \E d \in MatchNodes(ns, Person, duplicate_id) : e.dst = NodeKey(d)}

\* MERGE (src)-[r:type]->(dst) SET r += props, the existing edge's values win
MergeSetEdgeKeepOld(es, src, dst, type, props) ==
    LET hit == MatchEdges(es, src, dst, type)
    IN  IF hit = {} THEN es \cup {NewEdge(es, src, dst, type, props)}
        ELSE (es \ hit) \cup {[e EXCEPT !.props = MapAdd(props, e.props)] : e \in hit}

\* MERGE (src)-[r:type]->(dst) SET r += props, for one bound pair of nodes
MergeSetEdge(es, src, dst, type, props) ==
    LET hit == MatchEdges(es, src, dst, type)
    IN  IF hit = {} THEN es \cup {NewEdge(es, src, dst, type, props)}
        ELSE (es \ hit) \cup {[e EXCEPT !.props = MapAdd(e.props, props)] : e \in hit}

RECURSIVE MergeSetPairs(_, _, _, _)
MergeSetPairs(es, prs, type, props) ==
    IF prs = {} THEN es
    ELSE LET p == CHOOSE x \in prs : TRUE
         IN  MergeSetPairs(MergeSetEdge(es, p[1], p[2], type, props),
                           prs \ {p}, type, props)

\* create_rel_query of the outgoing loop:
\*   MATCH (canonical:Person {id}) MATCH (target {id}) MERGE ... SET r += $props
create_rel_outgoing(ns, es, canonical_id, rel) ==
    MergeSetPairs(es,
        {<<NodeKey(c), NodeKey(t)>> : c \in MatchNodes(ns, Person, canonical_id),
                                      t \in MatchAnyLabel(ns, rel.target_id)},
        rel.rel_type, rel.props)

\* create_rel_query of the incoming loop:
\*   MATCH (source {id}) MATCH (canonical:Person {id}) MERGE ... SET r += $props
create_rel_incoming(ns, es, canonical_id, rel) ==
    MergeSetPairs(es,
        {<<NodeKey(s), NodeKey(c)>> : s \in MatchAnyLabel(ns, rel.source_id),
                                      c \in MatchNodes(ns, Person, canonical_id)},
        rel.rel_type, rel.props)

\* (variant: the duplicate is not deleted)
DeleteNothing(g, duplicate_id) == g

\* delete_query: MATCH (dup:Person {id}) DETACH DELETE dup
delete_query(g, duplicate_id) ==
    LET ds == MatchNodes(g.nodes, Person, duplicate_id)
        ks == {NodeKey(d) : d \in ds}
    IN  [nodes |-> g.nodes \ ds,
         edges |-> {e \in g.edges : e.src \notin ks /\ e.dst \notin ks}]

\* the distinct t of (a:Entity)-[:IS_TENDERER_FOR]->(t:Tender)
TendersOf(es, a) ==
    {e.dst : e \in {x \in es : /\ x.type = "IS_TENDERER_FOR"
                               /\ x.src = NodeKey(a)
                               /\ x.dst.label = Tender}}

\* the rows (a, b) after WITH a, b, count(DISTINCT t)
CompetedRows(ns, es) ==
    LET ents == {n \in ns : n.label = Entity /\ Has(n.props, "id")}
    IN  {r \in ents \X ents :
            /\ StrLess(r[1].props["id"], r[2].props["id"])
            /\ TendersOf(es, r[1]) \cap TendersOf(es, r[2]) # {}}

\* edges of one type between two nodes, either direction
Between(es, x, y, type) == MatchEdges(es, x, y, type) \cup MatchEdges(es, y, x, type)

\* MERGE (a)-[r:COMPETED_WITH]-(b), the count added to the stored one
CompetedRowAccumulate(es, a, b, n) ==
    LET hit == Between(es, NodeKey(a), NodeKey(b), "COMPETED_WITH")
        Old(e) == IF Has(e.props, "competition_count")
                  THEN e.props["competition_count"] ELSE 0
    IN  IF hit = {}
        THEN es \cup {NewEdge(es, NodeKey(a), NodeKey(b), "COMPETED_WITH",
                              [competition_count |-> n])}
        ELSE (es \ hit) \cup
             {[e EXCEPT !.props = MapSet(e.props, "competition_count", Old(e) + n)] :
              e \in hit}

\* MERGE (a)-[r:COMPETED_WITH]-(b) SET r.competition_count = competition_count
CompetedRow(es, a, b, n) ==
    LET hit == Between(es, NodeKey(a), NodeKey(b), "COMPETED_WITH")
    IN  IF hit = {}
        THEN es \cup {NewEdge(es, NodeKey(a), NodeKey(b), "COMPETED_WITH",
                              [competition_count |-> n])}
        ELSE (es \ hit) \cup
             {[e EXCEPT !.props = MapSet(e.props, "competition_count", n)] : e \in hit}

RECURSIVE CompetedFold(_, _, _)
CompetedFold(es, es0, rows) ==
    IF rows = {} THEN es
    ELSE LET r == CHOOSE x \in rows : TRUE
             n == Cardinality(TendersOf(es0, r[1]) \cap TendersOf(es0, r[2]))
         IN  CompetedFold(CompetedRow(es, r[1], r[2], n), es0, rows \ {r})

\* create_competed_with: the statement's effect and its count(r)
create_competed_with(ns, es) ==
    LET rows == CompetedRows(ns, es)
        out  == CompetedFold(es, es, rows)
        Hits(r) == Between(out, NodeKey(r[1]), NodeKey(r[2]), "COMPETED_WITH")
        RECURSIVE Count(_)
        Count(rs) == IF rs = {} THEN 0
                     ELSE LET r == CHOOSE x \in rs : TRUE
                          IN  Cardinality(Hits(r)) + Count(rs \ {r})
    IN  [edges |-> out, relationships_created |-> Count(rows)]

(***************************************************************************)
(* The graphs the enrichment pass starts from: what the loader leaves in   *)
(* the store, one node per (label, id) and one edge per identity, with no  *)
(* COMPETED_WITH edge yet.  PersonGraphs holds canonical and pep persons,  *)
(* TenderGraphs holds entities and the tenders they are tenderers for.     *)
(***************************************************************************)
NameX == <<"X">>
NameY == <<"Y">>
IdOne == <<"1">>
IdT1  == <<"t","1">>

NodeC1 == [label |-> Person,
           props |-> [id |-> <<"n",":","1">>, person_name |-> NameX]]
NodeC2 == [label |-> Person,
           props |-> [id |-> <<"n",":","2">>, person_name |-> NameX]]
NodeD1(name) == [label |-> Person,
                 props |-> [id |-> <<"p","e","p",":","1">>, person_name |-> name,
                            party |-> <<"k">>]]
NodeD2 == [label |-> Person,
           props |-> [id |-> <<"p","e","p",":","2">>, person_name |-> NameX]]
NodeE1 == [label |-> Entity, props |-> [id |-> IdOne]]
NodeE2 == [label |-> Entity, props |-> [id |-> <<"2">>]]
NodeE10 == [label |-> Entity, props |-> [id |-> <<"1","0">>]]
NodeT1(id) == [label |-> Tender, props |-> [id |-> id]]
NodeT2 == [label |-> Tender, props |-> [id |-> <<"t","2">>]]

EdgeOf(src, dst, type, props) ==
    [src |-> NodeKey(src), dst |-> NodeKey(dst), type |-> type, props |-> props,
     k |-> 1]

\* the optional edges of a person graph; the tender's id may equal the
\* entity's (ids are only unique per label)
PersonEdges(name, tid) ==
    <<EdgeOf(NodeC1, NodeE1, "ASSOCIATED_WITH", [a |-> 1]),
      EdgeOf(NodeD1(name), NodeE1, "ASSOCIATED_WITH", [a |-> 9, b |-> 2]),
      EdgeOf(NodeC1, NodeT1(tid), "LINK", [a |-> 1]),
      EdgeOf(NodeD1(name), NodeT1(tid), "LINK", [b |-> 2]),
      EdgeOf(NodeE1, NodeD1(name), "OWNS", EmptyMap),
      EdgeOf(NodeC2, NodeE1, "ASSOCIATED_WITH", EmptyMap),
      EdgeOf(NodeD2, NodeE1, "ASSOCIATED_WITH", [c |-> 3]),
      EdgeOf(NodeD1(name), NodeE1, "LINK", [c |-> 3]),
      EdgeOf(NodeD1(name), NodeE2, "ASSOCIATED_WITH", EmptyMap)>>

PersonGraph(name, tid, S) ==
    [nodes |-> {NodeC1, NodeD1(name), NodeE1, NodeT1(tid)}
               \cup (IF 6 \in S THEN {NodeC2} ELSE {})
               \cup (IF 7 \in S THEN {NodeD2} ELSE {})
               \cup (IF 9 \in S THEN {NodeE2} ELSE {}),
     edges |-> {PersonEdges(name, tid)[i] : i \in S}]

PersonGraphs ==
    {PersonGraph(name, tid, S) : name \in {NameX, NameY}, tid \in {IdOne, IdT1},
                                 S \in SUBSET (1..9)}

TenderEdges ==
    {EdgeOf(a, t, "IS_TENDERER_FOR", EmptyMap) :
        a \in {NodeE1, NodeE2, NodeE10}, t \in {NodeT1(IdT1), NodeT2}}

TenderGraphs ==
    {[nodes |-> {NodeE1, NodeE2, NodeE10, NodeT1(IdT1), NodeT2}, edges |-> S] :
        S \in SUBSET TenderEdges}

EnrichGraphs == PersonGraphs \cup TenderGraphs

(***************************************************************************)
(* run_all_enrichments: merge_duplicate_persons, then create_competed_with. *)
(* Every action is one execute_cypher call and the Python around it.        *)
(***************************************************************************)
CurrentPair == pairs[pair_i]

\* merge_duplicate_persons returns: the statistics it reports
MergeReturned(before, prs, transferred, g) ==
    enrich_log' = Append(enrich_log,
        [before |-> before, pairs |-> prs, merged |-> Len(prs),
         relationships_transferred |-> transferred, after_merge |-> g,
         after |-> g, competed |-> 0, done |-> FALSE])

EnrichFrame == UNCHANGED <<collection, syncVars, queryVars, runVars, abort_log>>

\* pairs = loader.execute_cypher(find_duplicates_query); `if not pairs: return`
FindDuplicates ==
    /\ epc = "start"
    /\ \E prs \in find_duplicates_query(nodes, edges) :
          /\ pairs' = prs
          /\ graph0' = Graph
          /\ total_rels_transferred' = 0
          /\ rel_list' = <<>>
          /\ rel_i' = 0
          /\ IF prs = <<>>
             THEN /\ pair_i' = 0
                  /\ epc' = "competed"
                  /\ MergeReturned(Graph, prs, 0, Graph)
             ELSE /\ pair_i' = 1
                  /\ epc' = "props"
                  /\ UNCHANGED enrich_log
    /\ UNCHANGED storeVars
    /\ EnrichFrame

\* 2a: merge_props_query
MergeProps ==
    /\ epc = "props"
    /\ nodes' = merge_props_query(nodes, CurrentPair.canonical_id,
                                  CurrentPair.duplicate_id)
    /\ epc' = "get_out"
    /\ UNCHANGED <<edges, pairs, pair_i, rel_list, rel_i, total_rels_transferred,
                   graph0, enrich_log>>
    /\ EnrichFrame

\* 2b: outgoing_rels = loader.execute_cypher(get_outgoing_query)
GetOutgoing ==
    /\ epc = "get_out"
    /\ \E rows \in Perms(OutgoingOf(nodes, edges, CurrentPair.duplicate_id)) :
          rel_list' = [i \in 1..Len(rows) |->
                          [rel_type |-> rows[i].type, props |-> rows[i].props,
                           target_id |-> rows[i].dst.id]]
    /\ rel_i' = 1
    /\ epc' = "out"
    /\ UNCHANGED <<storeVars, pairs, pair_i, total_rels_transferred, graph0,
                   enrich_log>>
    /\ EnrichFrame

\* `for rel in outgoing_rels`: create_rel_query
TransferOut ==
    /\ epc = "out"
    /\ rel_i <= Len(rel_list)
    /\ edges' = create_rel_outgoing(nodes, edges, CurrentPair.canonical_id,
                                    rel_list[rel_i])
    /\ rel_i' = rel_i + 1
    /\ total_rels_transferred' = total_rels_transferred + 1
    /\ UNCHANGED <<nodes, epc, pairs, pair_i, rel_list, graph0, enrich_log>>
    /\ EnrichFrame

\* 2c: incoming_rels = loader.execute_cypher(get_incoming_query)
GetIncoming ==
    /\ epc = "out"
    /\ rel_i > Len(rel_list)
    /\ \E rows \in Perms(IncomingOf(nodes, edges, CurrentPair.duplicate_id)) :
          rel_list' = [i \in 1..Len(rows) |->
                          [rel_type |-> rows[i].type, props |-> rows[i].props,
                           source_id |-> rows[i].src.id]]
    /\ rel_i' = 1
    /\ epc' = "in"
    /\ UNCHANGED <<storeVars, pairs, pair_i, total_rels_transferred, graph0,
                   enrich_log>>
    /\ EnrichFrame

\* `for rel in incoming_rels`: create_rel_query
TransferIn ==
    /\ epc = "in"
    /\ rel_i <= Len(rel_list)
    /\ edges' = create_rel_incoming(nodes, edges, CurrentPair.canonical_id,
                                    rel_list[rel_i])
    /\ rel_i' = rel_i + 1
    /\ total_rels_transferred' = total_rels_transferred + 1
    /\ UNCHANGED <<nodes, epc, pairs, pair_i, rel_list, graph0, enrich_log>>
    /\ EnrichFrame

\* 2d: delete_query, then the next pair or the return
DeleteDup ==
    /\ epc = "in"
    /\ rel_i > Len(rel_list)
    /\ LET g == delete_query(Graph, CurrentPair.duplicate_id)
       IN  /\ nodes' = g.nodes
           /\ edges' = g.edges
           /\ IF pair_i < Len(pairs)
              THEN /\ epc' = "props"
                   /\ UNCHANGED enrich_log
              ELSE /\ epc' = "competed"
                   /\ MergeReturned(graph0, pairs, total_rels_transferred, g)
    /\ pair_i' = pair_i + 1
    /\ rel_list' = <<>>
    /\ rel_i' = 0
    /\ UNCHANGED <<pairs, total_rels_transferred, graph0>>
    /\ EnrichFrame

\* competed_count = create_competed_with(loader)
CreateCompetedWith ==
    /\ epc = "competed"
    /\ LET r == create_competed_with(nodes, edges)
       IN  /\ edges' = r.edges
           /\ enrich_log' = [enrich_log EXCEPT ![Len(enrich_log)] =
                  [@ EXCEPT !.after = [nodes |-> nodes, edges |-> r.edges],
                            !.competed = r.relationships_created,
                            !.done = TRUE]]
    /\ epc' = "done"
    /\ UNCHANGED <<nodes, pairs, pair_i, rel_list, rel_i, total_rels_transferred,
                   graph0>>
    /\ EnrichFrame

\* run_all_enrichments is called again on the graph it left
NextPass ==
    /\ epc = "done"
    /\ Len(enrich_log) < MaxPasses
    /\ epc' = "start"
    /\ UNCHANGED <<storeVars, pairs, pair_i, rel_list, rel_i,
                   total_rels_transferred, graph0, enrich_log>>
    /\ EnrichFrame

\* between two calls of run_all_enrichments the loader, or an operator of the
\* store, adds or removes one IS_TENDERER_FOR edge
TenderersChange ==
    /\ epc = "done"
    /\ Len(enrich_log) < MaxPasses
    /\ \E e \in TenderEdges :
          /\ \E n \in nodes : NodeKey(n) = e.src
          /\ \E n \in nodes : NodeKey(n) = e.dst
          /\ edges' = IF e \in edges THEN edges \ {e} ELSE edges \cup {e}
    /\ UNCHANGED <<nodes, enrichVars>>
    /\ EnrichFrame

\* session.run raises inside loader.execute_cypher: neither
\* merge_duplicate_persons nor run_all_enrichments has a try, so the exception
\* leaves both and is caught by run_graph_loader; the statement that raised
\* and everything after it in the call has not run
EnrichRaises ==
    /\ epc \in {"start", "props", "get_out", "out", "in", "competed"}
    /\ Len(abort_log) < MaxAborts
    /\ abort_log' = Append(abort_log,
          [before |-> IF epc = "start" THEN Graph ELSE graph0,
           at |-> Graph,
           stage |-> epc,
           pairs |-> IF epc = "start" THEN <<>> ELSE pairs,
           pair_i |-> IF epc = "start" THEN 0 ELSE pair_i,
           pass |-> IF epc = "competed" THEN Len(enrich_log)
                    ELSE Len(enrich_log) + 1])
    /\ epc' = "raised"
    /\ UNCHANGED <<storeVars, pairs, pair_i, rel_list, rel_i,
                   total_rels_transferred, graph0, enrich_log>>
    /\ UNCHANGED <<collection, syncVars, queryVars, runVars>>

\* the operator starts main again: run_all_enrichments on the graph the
\* aborted call left
Resume ==
    /\ epc = "raised"
    /\ epc' = "start"
    /\ UNCHANGED <<storeVars, pairs, pair_i, rel_list, rel_i,
                   total_rels_transferred, graph0, enrich_log>>
    /\ EnrichFrame


InitEnrich ==
    /\ collection = <<>>
    /\ \E g \in EnrichGraphs : nodes = g.nodes /\ edges = g.edges
    /\ SyncIdle
    /\ QueryIdle
    /\ epc = "start" /\ pairs = <<>> /\ pair_i = 0 /\ rel_list = <<>> /\ rel_i = 0
    /\ total_rels_transferred = 0 /\ graph0 = [nodes |-> {}, edges |-> {}]
    /\ enrich_log = <<>> /\ abort_log = <<>>
    /\ RunIdle

NextEnrich ==
    \/ FindDuplicates
    \/ MergeProps
    \/ GetOutgoing
    \/ TransferOut
    \/ GetIncoming
    \/ TransferIn
    \/ DeleteDup
    \/ CreateCompetedWith
    \/ NextPass
    \/ TenderersChange

SpecEnrich == InitEnrich /\ [][NextEnrich]_vars

(***************************************************************************)
(* One run_all_enrichments call in which any execute_cypher call may       *)
(* raise, and the calls that follow an aborted one.                        *)
(***************************************************************************)
\* edges of PersonEdges the graphs of the resumed passes are built from
ResumeEdges == {1, 2, 3, 4, 5, 6, 7}

ResumeGraphs ==
    {PersonGraph(NameX, tid, S) : tid \in {IdOne, IdT1}, S \in SUBSET ResumeEdges}

InitResume ==
    /\ collection = <<>>
    /\ \E g \in ResumeGraphs : nodes = g.nodes /\ edges = g.edges
    /\ SyncIdle
    /\ QueryIdle
    /\ epc = "start" /\ pairs = <<>> /\ pair_i = 0 /\ rel_list = <<>> /\ rel_i = 0
    /\ total_rels_transferred = 0 /\ graph0 = [nodes |-> {}, edges |-> {}]
    /\ enrich_log = <<>> /\ abort_log = <<>>
    /\ RunIdle

NextResume ==
    \/ FindDuplicates
    \/ MergeProps
    \/ GetOutgoing
    \/ TransferOut
    \/ GetIncoming
    \/ TransferIn
    \/ DeleteDup
    \/ CreateCompetedWith
    \/ EnrichRaises
    \/ Resume

SpecResume == InitResume /\ [][NextResume]_vars

(***************************************************************************)
(* BaseDataSource.run (elt_core/base_source.py): staged ELT of one source. *)
(* The connector is the database: save_documents_bulk stores the documents *)
(* it is given, get_all_documents returns the documents of a database.     *)
(***************************************************************************)
MaxRecords == 4         \* records in the source file
ExtractBatchSize == 2   \* batch_size of extract(), 5000 in the code
SilverBatchSize == 2    \* batch_size of the silver loop of run(), 5000 in the code

ClassName == <<"C","o","n","c","r","e","t","e","S","o","u","r","c","e">>
SourceWord == <<"s","o","u","r","c","e">>

\* str.replace(sub, ''), sub not empty
RECURSIVE RemoveAll(_, _)
RemoveAll(s, sub) ==
    IF s = <<>> THEN <<>>
    ELSE IF StartsWith(s, sub) THEN RemoveAll(SubSeq(s, Len(sub) + 1, Len(s)), sub)
    ELSE <<Head(s)>> \o RemoveAll(Tail(s), sub)

\* self.__class__.__name__.lower().replace('source', '')
source_name == RemoveAll([i \in 1..Len(ClassName) |-> ToLower(ClassName[i])], SourceWord)

BronzeDb == source_name \o <<"_","b","r","o","n","z","e">>
SilverDb == source_name \o <<"_","s","i","l","v","e","r">>

\* str() of a small number
Str(i) == <<CharOrder[i + 1]>>

\* the records of the file and the batches extract() yields from them
Records(n) == [i \in 1..n |-> [v |-> i]]

Chunks(s, size) ==
    [i \in 1..((Len(s) + size - 1) \div size) |->
        SubSeq(s, (i - 1) * size + 1,
               IF i * size < Len(s) THEN i * size ELSE Len(s))]

\* doc = item.copy(); doc['_id'] = str(doc[self.id_column]) when the column is there
WithId(item, col) ==
    IF col # "" /\ Has(item, col) THEN MapSet(item, "_id", Str(item[col])) ELSE item

\* load_bronze: docs_batch
BronzeDocs(batch_data, col) == [i \in 1..Len(batch_data) |-> WithId(batch_data[i], col)]

\* del doc['_rev']
WithoutRev(doc) == [k \in DOMAIN doc \ {"_rev"} |-> doc[k]]

\* load_silver: docs_batch
SilverDocs(items, col) == [i \in 1..Len(items) |-> WithoutRev(WithId(items[i], col))]

\* what the database returns for a stored document: it carries a revision
Stored(docs) == [i \in 1..Len(docs) |-> MapSet(docs[i], "_rev", <<"1">>)]

\* self.transform is abstract: it may return the documents, a part of them,
\* a single dict, or something that is neither a list nor a dict
TransformResults(docs) ==
    {[kind |-> "list", items |-> docs], [kind |-> "list", items |-> <<>>],
     [kind |-> "other", items |-> <<>>]}
    \cup (IF docs = <<>> THEN {} ELSE {[kind |-> "dict", items |-> <<docs[1]>>]})

DbCall(op, db, docs) == [op |-> op, db |-> db, docs |-> docs]

\* (variant: the bronze database is read back after the first batch)
AfterBatchReadsEarly(i, n) == "fetch"

\* the loop over self.extract(): the next batch, or phase 2
AfterBatch(i, n) == IF i < n THEN "extract" ELSE "fetch"

RunFrame == UNCHANGED <<collection, storeVars, syncVars, queryVars, enrichVars>>

\* `for i, raw_batch in enumerate(self.extract())`: self.load_bronze(raw_batch)
LoadBronze ==
    /\ rpc = "extract"
    /\ ext_i <= Len(raw_batches)
    /\ LET docs == BronzeDocs(raw_batches[ext_i], id_column)
       IN  /\ bronze_db' = bronze_db \o Stored(docs)
           /\ db_calls' = Append(db_calls, DbCall("save_documents_bulk", BronzeDb, docs))
    /\ total_ingested' = total_ingested + Len(raw_batches[ext_i])
    /\ ext_i' = ext_i + 1
    /\ rpc' = AfterBatch(ext_i, Len(raw_batches))
    /\ UNCHANGED <<raw_batches, id_column, silver_db, all_bronze_docs, clean_data, sil_i>>
    /\ RunFrame

\* all_bronze_docs = self.get_data('bronze')
FetchBronze ==
    /\ rpc = "fetch"
    /\ all_bronze_docs' = bronze_db
    /\ db_calls' = Append(db_calls, DbCall("get_all_documents", BronzeDb, <<>>))
    /\ rpc' = "transform"
    /\ UNCHANGED <<raw_batches, id_column, ext_i, total_ingested, bronze_db, silver_db,
                   clean_data, sil_i>>
    /\ RunFrame

\* clean_data = self.transform(all_bronze_docs)
Transform ==
    /\ rpc = "transform"
    /\ \E r \in TransformResults(all_bronze_docs) : clean_data' = r
    /\ sil_i' = 0
    /\ rpc' = "silver"
    /\ UNCHANGED <<raw_batches, id_column, ext_i, total_ingested, bronze_db, silver_db,
                   db_calls, all_bronze_docs>>
    /\ RunFrame

\* the silver loop over a list: self.load_silver(clean_data[i:i + batch_size])
LoadSilverBatch ==
    /\ rpc = "silver"
    /\ clean_data.kind = "list"
    /\ sil_i < Len(clean_data.items)
    /\ LET docs == SilverDocs(Window(clean_data.items, sil_i, SilverBatchSize), id_column)
       IN  /\ silver_db' = silver_db \o Stored(docs)
           /\ db_calls' = Append(db_calls, DbCall("save_documents_bulk", SilverDb, docs))
    /\ sil_i' = sil_i + SilverBatchSize
    /\ UNCHANGED <<rpc, raw_batches, id_column, ext_i, total_ingested, bronze_db,
                   all_bronze_docs, clean_data>>
    /\ RunFrame

\* the else branch: self.load_silver(clean_data) of a dict
LoadSilverDict ==
    /\ rpc = "silver"
    /\ clean_data.kind = "dict"
    /\ LET docs == SilverDocs(clean_data.items, id_column)
       IN  /\ silver_db' = silver_db \o Stored(docs)
           /\ db_calls' = Append(db_calls, DbCall("save_documents_bulk", SilverDb, docs))
    /\ rpc' = "finished"
    /\ UNCHANGED <<raw_batches, id_column, ext_i, total_ingested, bronze_db,
                   all_bronze_docs, clean_data, sil_i>>
    /\ RunFrame

\* the else branch with neither a list nor a dict: load_silver raises ValueError
LoadSilverRejects ==
    /\ rpc = "silver"
    /\ clean_data.kind = "other"
    /\ rpc' = "raised"
    /\ UNCHANGED <<raw_batches, id_column, ext_i, total_ingested, bronze_db, silver_db,
                   db_calls, all_bronze_docs, clean_data, sil_i>>
    /\ RunFrame

\* the silver loop is over: "Pipeline finished successfully."
RunFinished ==
    /\ rpc = "silver"
    /\ clean_data.kind = "list"
    /\ sil_i >= Len(clean_data.items)
    /\ rpc' = "finished"
    /\ UNCHANGED <<raw_batches, id_column, ext_i, total_ingested, bronze_db, silver_db,
                   db_calls, all_bronze_docs, clean_data, sil_i>>
    /\ RunFrame

\* extract(), a connector call or transform raises: run() has no handler,
\* the exception leaves it
RunRaises ==
    /\ rpc \in {"extract", "fetch", "transform", "silver"}
    /\ rpc' = "raised"
    /\ UNCHANGED <<raw_batches, id_column, ext_i, total_ingested, bronze_db, silver_db,
                   db_calls, all_bronze_docs, clean_data, sil_i>>
    /\ RunFrame

InitRun ==
    /\ collection = <<>>
    /\ nodes = {}
    /\ edges = {}
    /\ SyncIdle
    /\ QueryIdle
    /\ EnrichIdle
    /\ \E n \in 0..MaxRecords :
          /\ raw_batches = Chunks(Records(n), ExtractBatchSize)
          /\ rpc = AfterBatch(0, Len(raw_batches))
    /\ id_column \in {"", "v"}
    /\ ext_i = 1
    /\ total_ingested = 0 /\ silver_db = <<>> /\ db_calls = <<>>
    /\ bronze_db \in {<<>>, Stored(Records(1))}   \* empty, or left by an earlier run
    /\ all_bronze_docs = <<>> /\ clean_data = [kind |-> "none", items |-> <<>>]
    /\ sil_i = 0

NextRun ==
    \/ LoadBronze
    \/ FetchBronze
    \/ Transform
    \/ LoadSilverBatch
    \/ LoadSilverDict
    \/ LoadSilverRejects
    \/ RunFinished
    \/ RunRaises

SpecRun == InitRun /\ [][NextRun]_vars

(***************************************************************************)
(* Helpers of the properties below.                                        *)
(***************************************************************************)
\* the elements of s at the indices I, in index order
PickInOrder(s, I) ==
    [k \in 1..Cardinality(I) |->
        s[CHOOSE j \in I : Cardinality({h \in I : h <= j}) = k]]

FirstCharIs(str, c) == Len(str) > 0 /\ str[1] = c

Truthy(item) == Has(item, "id") /\ Len(item["id"]) > 0

\* what the mapper supplies under entity type et for a list of documents, in
\* record order, then item order
RECURSIVE SuppliedItems(_, _)
SuppliedItems(docs, et) ==
    IF docs = <<>> THEN <<>>
    ELSE LET res  == doc_mapper_func(Head(docs))
             here == {k \in 1..Len(res.batch) : res.batch[k].key = et}
             mine == IF FirstCharIs(Head(docs)._id, "_") \/ res.raises \/ here = {}
                     THEN <<>>
                     ELSE res.batch[CHOOSE k \in here : TRUE].items
         IN  mine \o SuppliedItems(Tail(docs), et)

WindowInput(s) == SuppliedItems(Window(all_docs, s.window, batch_size), s.entity_type)

LastStmtIsNode ==
    /\ Len(node_stmts) > 0
    /\ node_stmts[Len(node_stmts)].seq = StmtSeq - 1

LastStmtIsRel ==
    /\ Len(rel_stmts) > 0
    /\ rel_stmts[Len(rel_stmts)].seq = StmtSeq - 1

(***************************************************************************)
(* C1.  The mapper is never invoked on a document whose _id begins with    *)
(* the reserved prefix "_": no such _id is among the mapper's calls, in    *)
(* any window and for any mix of reserved and ordinary documents.          *)
(***************************************************************************)
C1_ReservedNeverMapped ==
    \A i \in 1..Len(mapper_calls) : ~FirstCharIs(mapper_calls[i], "_")

\* a window that mixes a reserved and an ordinary document has been mapped
C1_Witness ==
    /\ pc = "nodes"
    /\ \E i, j \in 1..Len(CurrentBatch) :
          /\ FirstCharIs(CurrentBatch[i]._id, "_")
          /\ ~FirstCharIs(CurrentBatch[j]._id, "_")
    /\ Len(mapper_calls) > 0

(***************************************************************************)
(* C2 (as amended).  In one window, of the node items supplied under one   *)
(* entity-type name with one id, exactly one is sent in that entity type's *)
(* node upsert, and it is the first in input order (record order, then     *)
(* item order); the later ones are dropped; the window sends one statement *)
(* per entity-type name.                                                   *)
(***************************************************************************)
C2_FirstOfEntityTypeWins ==
    \A n \in 1..Len(node_stmts) :
        LET s   == node_stmts[n]
            inp == WindowInput(s)
            ok  == {j \in 1..Len(inp) : Truthy(inp[j])}
        IN  /\ \A k \in 1..Len(s.batch) : \E j \in ok : inp[j] = s.batch[k]
            /\ \A j \in ok :
                  LET first == CHOOSE f \in ok :
                                  /\ inp[f]["id"] = inp[j]["id"]
                                  /\ \A g \in ok : inp[g]["id"] = inp[j]["id"] => f <= g
                  IN  /\ Cardinality({k \in 1..Len(s.batch) :
                                         s.batch[k]["id"] = inp[j]["id"]}) = 1
                      /\ \E k \in 1..Len(s.batch) : s.batch[k] = inp[first]
            /\ \A m \in 1..Len(node_stmts) :
                  (m # n /\ node_stmts[m].window = s.window)
                      => node_stmts[m].entity_type # s.entity_type

\* C2 as claimed: in one window, one (label, id) is sent once
C2_OnePerLabelAndId ==
    \A n, m \in 1..Len(node_stmts) :
        (n # m /\ node_stmts[n].window = node_stmts[m].window
               /\ node_stmts[n].label = node_stmts[m].label)
            => \A k \in 1..Len(node_stmts[n].batch), h \in 1..Len(node_stmts[m].batch) :
                  node_stmts[n].batch[k]["id"] # node_stmts[m].batch[h]["id"]

\* a statement was sent for a window that supplied two different items of one
\* entity type and id
C2_Witness ==
    \E n \in 1..Len(node_stmts) :
        LET inp == WindowInput(node_stmts[n])
        IN  /\ node_stmts[n].ok
            /\ \E i, j \in 1..Len(inp) :
                  /\ i < j /\ Truthy(inp[i]) /\ Truthy(inp[j])
                  /\ inp[i]["id"] = inp[j]["id"]
                  /\ inp[i] # inp[j]

(***************************************************************************)
(* C3.  generate_batch_merge_relationships_query returns exactly one pair  *)
(* per distinct rel_type of its input; the batch of each pair holds all    *)
(* and only the input relationships of that type, in input order (k types  *)
(* give k pairs, the empty input gives none).                              *)
(***************************************************************************)
C3_OnePairPerType ==
    qpc = "done" =>
        LET types == {relationships[j].rel_type : j \in 1..Len(relationships)}
        IN  /\ Len(generated) = Cardinality(types)
            /\ \A t \in types : \E i \in 1..Len(generated) : generated[i].rel_type = t
            /\ \A i \in 1..Len(generated) :
                  generated[i].batch =
                      PickInOrder(relationships,
                                  {j \in 1..Len(relationships) :
                                      relationships[j].rel_type = generated[i].rel_type})

\* three types, one of them twice
C3_Witness ==
    /\ qpc = "done"
    /\ Len(relationships) = 4
    /\ Len(generated) = 3
    /\ \E i \in 1..3 : Len(generated[i].batch) = 2

(***************************************************************************)
(* Two successive sync calls that both fetched, on the same documents and  *)
(* with the same batch size, no statement of either having failed.         *)
(***************************************************************************)
Successive(i) ==
    /\ i + 1 <= Len(run_log)
    /\ \A r \in {i, i + 1} :
          run_log[r].returned /\ run_log[r].fetched /\ run_log[r].clean
    /\ run_log[i].docs = run_log[i + 1].docs
    /\ run_log[i].batch_size = run_log[i + 1].batch_size

(***************************************************************************)
(* C4 (as amended).  A second sync of the same documents leaves the same   *)
(* nodes with the same properties and keeps every edge; it adds no edge    *)
(* either when every relationship of the first run found both its endpoint *)
(* nodes at the time it was flushed (then the second run is a no-op).      *)
(***************************************************************************)
C4_SecondRunSameNodesMoreEdges ==
    \A i \in 1..Len(run_log) :
        Successive(i) =>
            /\ run_log[i + 1].after.nodes = run_log[i].after.nodes
            /\ run_log[i].after.edges \subseteq run_log[i + 1].after.edges
            /\ run_log[i].all_matched => run_log[i + 1].after = run_log[i].after

\* C4 as claimed: the second run is a no-op on the store
C4_SecondRunNoOp ==
    \A i \in 1..Len(run_log) :
        Successive(i) => run_log[i + 1].after = run_log[i].after

\* two runs whose relationships all found their endpoints, with an edge stored
C4_Witness ==
    /\ Successive(1)
    /\ run_log[1].all_matched
    /\ run_log[1].after.edges # {}
    /\ run_log[1].before.nodes = {}

(***************************************************************************)
(* C5.  The second of two successive syncs of unchanged documents reports  *)
(* zero nodes created and zero relationships created.                      *)
(***************************************************************************)
C5_SecondRunCountsZero ==
    \A i \in 1..Len(run_log) :
        Successive(i) =>
            /\ run_log[i + 1].nodes_created = 0
            /\ run_log[i + 1].rels_created = 0

(***************************************************************************)
(* C6.  At the end of a run whose fetch succeeded, processed is the number *)
(* of non-reserved documents whose mapping returned, failed the number of  *)
(* documents whose mapping raised, the error list holds one entry per      *)
(* failed document, with its id, in document order, and the mapper was     *)
(* invoked on every non-reserved document (a raise stops no later one).    *)
(***************************************************************************)
C6_StatsAndErrors ==
    pc = "summary" =>
        LET live == {i \in 1..Len(all_docs) : ~FirstCharIs(all_docs[i]._id, "_")}
            bad  == {i \in live : doc_mapper_func(all_docs[i]).raises}
            ids  == [i \in 1..Len(all_docs) |-> all_docs[i]._id]
        IN  /\ total_docs_processed = Cardinality(live \ bad)
            /\ total_docs_failed = Cardinality(bad)
            /\ [k \in 1..Len(validation_errors) |-> validation_errors[k].doc_id]
                  = PickInOrder(ids, bad)
            /\ mapper_calls = PickInOrder(ids, live)

\* a document that raises is followed, in its window, by one that maps
C6_Witness ==
    /\ pc = "summary"
    /\ batch_size >= 2
    /\ Len(all_docs) >= 2
    /\ doc_mapper_func(all_docs[1]).raises
    /\ ~FirstCharIs(all_docs[2]._id, "_") /\ ~doc_mapper_func(all_docs[2]).raises
    /\ total_docs_processed >= 1

(***************************************************************************)
(* C9.  After a node upsert of (label, id) with property map M the stored  *)
(* node's properties are exactly M: a key stored earlier and absent from M *)
(* is gone.                                                                *)
(***************************************************************************)
C9_NodeUpsertReplaces ==
    (LastStmtIsNode /\ node_stmts[Len(node_stmts)].ok) =>
        LET s == node_stmts[Len(node_stmts)]
        IN  \A k \in 1..Len(s.batch) :
                MatchNodes(nodes, s.label, s.batch[k]["id"])
                    = {[label |-> s.label, props |-> s.batch[k]]}

\* the node had been written before with a key that the new map lacks
C9_Witness ==
    /\ LastStmtIsNode
    /\ node_stmts[Len(node_stmts)].ok
    /\ LET s == node_stmts[Len(node_stmts)]
       IN  \E m \in 1..(Len(node_stmts) - 1) :
             /\ node_stmts[m].ok
             /\ node_stmts[m].label = s.label
             /\ \E k \in 1..Len(s.batch), h \in 1..Len(node_stmts[m].batch) :
                   /\ node_stmts[m].batch[h]["id"] = s.batch[k]["id"]
                   /\ ~(DOMAIN node_stmts[m].batch[h] \subseteq DOMAIN s.batch[k])

(***************************************************************************)
(* C10.  After the flush of a relationship that carries properties, both   *)
(* endpoint nodes existing, the stored edge carries each of those          *)
(* properties.                                                             *)
(***************************************************************************)
C10_RelPropertiesStored ==
    (LastStmtIsRel /\ rel_stmts[Len(rel_stmts)].ok) =>
        LET s == rel_stmts[Len(rel_stmts)]
        IN  \A k \in 1..Len(s.batch) :
                LET item == s.batch[k]
                IN  ( /\ Has(item, "properties")
                      /\ item.from_label = s.from_label
                      /\ item.to_label = s.to_label
                      /\ MatchNodes(nodes, item.from_label, item.from_id) # {}
                      /\ MatchNodes(nodes, item.to_label, item.to_id) # {} )
                    => \E e \in MatchEdges(edges,
                                           [label |-> item.from_label, id |-> item.from_id],
                                           [label |-> item.to_label, id |-> item.to_id],
                                           item.rel_type) :
                          \A key \in DOMAIN item["properties"] :
                              /\ Has(e.props, key)
                              /\ e.props[key] = item["properties"][key]

(***************************************************************************)
(* Properties of the enrichment pass.                                      *)
(***************************************************************************)
\* the edges of es of one type from the node src to nodes carrying id
EdgesToId(es, srcs, type, id) ==
    {e \in es : e.src \in srcs /\ e.type = type /\ e.dst.id = id}

\* what C7 promises for the edges ec of c and ed of d once the pass has run
MergedOutcome(entry, c, d, ec, ed) ==
    LET hit == MatchEdges(entry.after.edges, c, ec.dst, ec.type)
    IN  /\ Cardinality(hit) = 1
        /\ \A e \in hit : e.props = MapAdd(ec.props, ed.props)
        /\ MatchNodes(entry.after.nodes, Person, d.id) = {}
        /\ MatchNodes(entry.after.nodes, Person, c.id) # {}

\* the duplicates the search paired with the canonical id
DupsOf(entry, canonical_id) ==
    {[label |-> Person, id |-> pr.duplicate_id] :
        pr \in {x \in Range(entry.pairs) : x.canonical_id = canonical_id}}

CompetedEdges(g) == {e \in g.edges : e.type = "COMPETED_WITH"}

\* C8: after a pass, every two distinct Entity nodes that are tenderers of a
\* common Tender are joined by exactly one COMPETED_WITH edge, counting both
\* directions, whose competition_count is the number of their distinct common
\* tenders; a further pass on the graph the pass left adds no COMPETED_WITH
\* edge and changes no competition_count.
C8_OneEdgePerCompetingPair ==
    \A i \in 1..Len(enrich_log) :
        LET entry == enrich_log[i]
            g     == entry.after
        IN  entry.done =>
            /\ \A a, b \in {n \in g.nodes : n.label = Entity} :
                  LET common == TendersOf(g.edges, a) \cap TendersOf(g.edges, b)
                      hit    == Between(g.edges, NodeKey(a), NodeKey(b), "COMPETED_WITH")
                  IN  (a # b /\ common # {}) =>
                         /\ Cardinality(hit) = 1
                         /\ \A e \in hit :
                               e.props = [competition_count |-> Cardinality(common)]
            /\ (i > 1 /\ entry.before = enrich_log[i - 1].after) =>
                  CompetedEdges(g) = CompetedEdges(enrich_log[i - 1].after)

\* the pass has run twice on entities 1 and 2, tenderers of t1 and t2 both,
\* and entities 10 and 2 (where "10" < "2"), and the count of 1 and 2 is 2
C8_Witness ==
    /\ epc = "done"
    /\ Len(enrich_log) = 2
    /\ enrich_log[2].before = enrich_log[1].after
    /\ \E e \in edges :
          /\ e.type = "COMPETED_WITH"
          /\ e.src = NodeKey(NodeE1) /\ e.dst = NodeKey(NodeE2)
          /\ e.props = [competition_count |-> 2]
    /\ \E e \in edges :
          /\ e.type = "COMPETED_WITH"
          /\ e.src = NodeKey(NodeE10) /\ e.dst = NodeKey(NodeE2)

(***************************************************************************)
(* C11.  In every state of the store reached by sync runs there is at most *)
(* one edge per relationship identity (from label and id, to label and id, *)
(* type): a relationship flushed again, in the same window, a later window *)
(* or a later run, adds no second edge.                                    *)
(***************************************************************************)
C11_OneEdgePerIdentity ==
    \A e, f \in edges :
        (e.src = f.src /\ e.dst = f.dst /\ e.type = f.type) => e = f

\* the second run has flushed the relationship p1 -ASSOCIATED_WITH-> e1 twice
\* in one statement, both rows matched, the edge was there since the first run
C11_Witness ==
    /\ run = 2
    /\ pc = "ready"
    /\ Successive(1)
    /\ MatchEdges(run_log[1].after.edges, [label |-> Person, id |-> p1],
                  [label |-> Entity, id |-> e1], "ASSOCIATED_WITH") # {}
    /\ \E i \in 1..Len(rel_stmts) :
          /\ rel_stmts[i].ok
          /\ rel_stmts[i].created_count >= 2
          /\ \E j, k \in 1..Len(rel_stmts[i].batch) :
                j # k /\ rel_stmts[i].batch[j] = RelAssoc /\ rel_stmts[i].batch[k] = RelAssoc
    /\ Cardinality(MatchEdges(edges, [label |-> Person, id |-> p1],
                              [label |-> Entity, id |-> e1], "ASSOCIATED_WITH")) = 1

\* the entry of the latest sync call
LastRun == run_log[Len(run_log)]

(***************************************************************************)
(* C12.  A sync call whose fetch of the collection fails ends without      *)
(* calling the mapper on any record and without running any node or        *)
(* relationship statement: the store is as the call found it.              *)
(***************************************************************************)
C12_FetchFailureDoesNothing ==
    (run_log # <<>> /\ ~LastRun.fetched) =>
        /\ LastRun.returned
        /\ pc = "ready"
        /\ mapper_calls = <<>>
        /\ node_stmts = <<>>
        /\ rel_stmts = <<>>
        /\ Graph = LastRun.before

\* the fetch of a non-empty collection failed on a loader whose earlier call
\* had mapped documents and written nodes
C12_Witness ==
    /\ Len(run_log) = 2
    /\ collection # <<>>
    /\ run_log[1].fetched /\ run_log[1].returned
    /\ run_log[1].mapped # <<>>
    /\ run_log[1].after.nodes # {}
    /\ ~run_log[2].fetched
    /\ run_log[2].returned

(***************************************************************************)
(* C13.  After a sync call returns, whatever the outcome of its fetch, the *)
(* error list holds only entries of records that this call handed to the   *)
(* mapper, never an entry left by an earlier call on the loader.           *)
(***************************************************************************)
C13_ErrorsOfThisCallOnly ==
    \A i \in 1..Len(run_log) :
        run_log[i].returned =>
            \A k \in 1..Len(run_log[i].errors) :
                \E j \in 1..Len(run_log[i].mapped) :
                    run_log[i].mapped[j] = run_log[i].errors[k].doc_id

\* the tenders both endpoints of the edge e are tenderers for, in the graph g
CommonTenders(g, e) ==
    {t \in {x.dst : x \in g.edges} :
        /\ t.label = Tender
        /\ MatchEdges(g.edges, e.src, t, "IS_TENDERER_FOR") # {}
        /\ MatchEdges(g.edges, e.dst, t, "IS_TENDERER_FOR") # {}}

(***************************************************************************)
(* C14.  After any run of the pass every COMPETED_WITH edge of the graph   *)
(* carries the current number of distinct tenders both its endpoints are   *)
(* tenderers for, also when IS_TENDERER_FOR edges were added or removed    *)
(* since the previous run.                                                 *)
(***************************************************************************)
C14_CountsAreCurrent ==
    \A i \in 1..Len(enrich_log) :
        enrich_log[i].done =>
            \A e \in CompetedEdges(enrich_log[i].after) :
                e.props = [competition_count |->
                              Cardinality(CommonTenders(enrich_log[i].after, e))]

\* in the node set ps, a pep Person and a non-pep Person carry one name
MixedGroup(ps) ==
    \E c, d \in ps :
        /\ PersonName(c) # <<>>
        /\ PersonName(c) = PersonName(d)
        /\ ~IsPepId(c.props["id"])
        /\ IsPepId(d.props["id"])

(***************************************************************************)
(* C15 (as amended).  After merge_duplicate_persons has returned, no two   *)
(* Person nodes that each have an ASSOCIATED_WITH edge to an Entity carry  *)
(* the same person_name while one has a pep: id and the other has not:     *)
(* every such name group has had its pep: nodes merged away.               *)
(***************************************************************************)
C15_AssociatedGroupsResolved ==
    \A i \in 1..Len(enrich_log) :
        ~MixedGroup(AssociatedPersons(enrich_log[i].after_merge.nodes,
                                      enrich_log[i].after_merge.edges))

\* C15 as claimed: no name group among all Person nodes is left with both kinds
C15_AllGroupsResolved ==
    \A i \in 1..Len(enrich_log) :
        ~MixedGroup({n \in enrich_log[i].after_merge.nodes :
                        n.label = Person /\ Has(n.props, "id")})

\* a pass that found a name group with two pep: persons and merged both away
C15_Witness ==
    \E i \in 1..Len(enrich_log) :
        /\ Len(enrich_log[i].pairs) = 2
        /\ MixedGroup(AssociatedPersons(enrich_log[i].before.nodes,
                                        enrich_log[i].before.edges))
        /\ \A n \in enrich_log[i].after_merge.nodes :
              n.label = Person => ~IsPepId(n.props["id"])

\* the positions of the calls of one operation on one database
CallsOf(op, db) == {i \in 1..Len(db_calls) : db_calls[i].op = op /\ db_calls[i].db = db}

(***************************************************************************)
(* C16.  In BaseDataSource.run every extracted batch is saved to the       *)
(* bronze database before the bronze database is read back, the only read  *)
(* of the run is one get_all_documents on '<source>_bronze' (none yet, or  *)
(* none at all when an exception ended the run earlier), and every save to *)
(* the silver database comes after that read.                              *)
(***************************************************************************)
C16_BronzeSavedThenReadOnceThenSilver ==
    LET reads  == {i \in 1..Len(db_calls) : db_calls[i].op = "get_all_documents"}
        bronze == CallsOf("save_documents_bulk", BronzeDb)
        silver == CallsOf("save_documents_bulk", SilverDb)
    IN  /\ reads = CallsOf("get_all_documents", BronzeDb)
        /\ Cardinality(reads) <= 1
        /\ rpc \in {"transform", "silver", "finished"} => Cardinality(reads) = 1
        /\ \A r \in reads :
              /\ bronze = 1..Len(raw_batches)
              /\ \A i \in bronze :
                    i < r /\ db_calls[i].docs = BronzeDocs(raw_batches[i], id_column)
        /\ \A s \in silver : \E r \in reads : r < s
        /\ bronze \cup silver \cup reads = 1..Len(db_calls)

\* a finished run that saved two batches to bronze, read bronze back and saved
\* two batches to silver
C16_Witness ==
    /\ rpc = "finished"
    /\ Len(raw_batches) = 2
    /\ Cardinality(CallsOf("save_documents_bulk", BronzeDb)) = 2
    /\ Cardinality(CallsOf("get_all_documents", BronzeDb)) = 1
    /\ Cardinality(CallsOf("save_documents_bulk", SilverDb)) >= 2
    /\ BronzeDb = <<"c","o","n","c","r","e","t","e","_","b","r","o","n","z","e">>

(***************************************************************************)
(* C17.  In each sync window every node statement of the window has        *)
(* finished, succeeded or failed, before the first relationship statement  *)
(* of that window is executed: the relationship flush starts only when no  *)
(* entity type of the window is left, and no node statement of a window    *)
(* comes after a relationship statement of it.                             *)
(***************************************************************************)
C17_NodesBeforeRelationships ==
    /\ pc = "rels" => ent_i > Len(batch_entities)
    /\ \A i \in 1..Len(node_stmts) : \A j \in 1..Len(rel_stmts) :
          node_stmts[i].window = rel_stmts[j].window
              => node_stmts[i].seq < rel_stmts[j].seq

\* a window with two node statements, one of them failed, and then a
\* relationship statement
C17_Witness ==
    \E j \in 1..Len(rel_stmts) :
        \E i, k \in 1..Len(node_stmts) :
            /\ i # k
            /\ node_stmts[i].window = rel_stmts[j].window
            /\ node_stmts[k].window = rel_stmts[j].window
            /\ ~node_stmts[i].ok
            /\ node_stmts[k].ok

(***************************************************************************)
(* C18.  When the store fails on the relationship statement of one type in *)
(* a window, the statements of the other relationship types of that window *)
(* are still executed: once the relationship flush of the window is over,  *)
(* every type of the window has had its statement sent.                    *)
(***************************************************************************)
C18_OtherTypesStillRun ==
    pc = "stats" =>
        \A q \in 1..Len(queries) :
            \E j \in 1..Len(rel_stmts) :
                /\ rel_stmts[j].window = batch_idx
                /\ rel_stmts[j].rel_type = queries[q].rel_type

\* the node statements of the current window for one entity type
NodeStmtsOf(key) ==
    {i \in 1..Len(node_stmts) :
        node_stmts[i].window = batch_idx /\ node_stmts[i].entity_type = key}

\* the mapped documents whose mapping raised, in mapping order
RECURSIVE RaisedOf(_)
RaisedOf(ids) ==
    IF ids = <<>> THEN <<>>
    ELSE LET doc == CHOOSE x \in Range(all_docs) : x._id = Head(ids)
         IN  (IF doc_mapper_func(doc).raises THEN <<[doc_id |-> Head(ids)]>> ELSE <<>>)
             \o RaisedOf(Tail(ids))

(***************************************************************************)
(* C19.  When the store fails on the node statement of one label in a      *)
(* window, the node statements of the remaining labels and the             *)
(* relationship flush of the window are still executed, the failed         *)
(* statement is not retried and nothing is added to the error list: after  *)
(* the node flush every entity type with items has had exactly one         *)
(* statement, after the window a relationship statement was sent if there  *)
(* were relationships, and the error list holds the raising documents only.*)
(***************************************************************************)
C19_NodeFailureIsolated ==
    /\ pc \in {"rels", "stats"} =>
          \A e \in 1..Len(batch_entities) :
              Dedup(batch_entities[e].items, {}) # <<>>
                  => Cardinality(NodeStmtsOf(batch_entities[e].key)) = 1
    /\ (pc = "stats" /\ batch_relationships # <<>>) =>
          \E j \in 1..Len(rel_stmts) : rel_stmts[j].window = batch_idx
    /\ validation_errors = RaisedOf(mapper_calls)

\* a returned run in which a node statement failed, a later node statement of
\* the same window succeeded, a relationship statement of that window ran,
\* and the error list is empty
C19_Witness ==
    /\ pc = "ready"
    /\ run = 1
    /\ validation_errors = <<>>
    /\ \E i, k \in 1..Len(node_stmts) : \E j \in 1..Len(rel_stmts) :
          /\ ~node_stmts[i].ok
          /\ node_stmts[k].ok
          /\ node_stmts[i].seq < node_stmts[k].seq
          /\ node_stmts[i].window = node_stmts[k].window
          /\ rel_stmts[j].window = node_stmts[i].window
          /\ node_stmts[i].label # node_stmts[k].label

\* the Entity nodes the person with key p is ASSOCIATED_WITH in the graph g
EntitiesOf(g, p) ==
    {e.dst : e \in {x \in g.edges : /\ x.type = "ASSOCIATED_WITH"
                                    /\ x.src = p
                                    /\ x.dst.label = Entity}}

(***************************************************************************)
(* C20.  Entity resolution merges a pep: Person into a canonical Person    *)
(* only if the two have the same name and are associated with a common     *)
(* Entity: persons of one name with no common target are never merged.     *)
(***************************************************************************)
C20_MergedOnlyWithCommonEntity ==
    \A i \in 1..Len(enrich_log) :
        \A pr \in Range(enrich_log[i].pairs) :
            EntitiesOf(enrich_log[i].before, [label |-> Person, id |-> pr.canonical_id])
            \cap EntitiesOf(enrich_log[i].before, [label |-> Person, id |-> pr.duplicate_id])
            # {}

\* the Person node of the graph g with the given id
PersonOf(g, id) == CHOOSE n \in g.nodes : n.label = Person /\ n.props["id"] = id

(***************************************************************************)
(* C21.  When entity resolution merges the duplicate d into the canonical  *)
(* c, afterwards c carries every non-id property key d had, every property *)
(* c already had keeps c's value, pep is set on c, and the keys of c are   *)
(* the union of both nodes' keys.                                          *)
(***************************************************************************)
C21_PropertiesAreUnion ==
    \A i \in 1..Len(enrich_log) :
        \A pr \in Range(enrich_log[i].pairs) :
            LET c0 == PersonOf(enrich_log[i].before, pr.canonical_id).props
                d0 == PersonOf(enrich_log[i].before, pr.duplicate_id).props
                c1 == PersonOf(enrich_log[i].after_merge, pr.canonical_id).props
            IN  /\ \A k \in DOMAIN d0 \ {"id"} : k \in DOMAIN c1
                /\ \A k \in DOMAIN c0 : c1[k] = c0[k]
                /\ Has(c1, "pep") /\ c1["pep"] = TRUE
                /\ DOMAIN c1 = DOMAIN c0 \cup DOMAIN d0 \cup {"pep"}

\* the edges of the node p in the graph g as (direction, type, other node)
EdgeSigs(g, p) ==
    {<<"out", e.type, e.dst>> : e \in {x \in g.edges : x.src = p}}
    \cup {<<"in", e.type, e.src>> : e \in {x \in g.edges : x.dst = p}}

(***************************************************************************)
(* C22.  When entity resolution merges duplicates into the canonical c,    *)
(* the edges of c afterwards are c's edges before plus, for each outgoing  *)
(* or incoming edge of a duplicate, one edge of the same type and          *)
(* direction between c and the same other node: no edge of a duplicate is  *)
(* lost and no edge is created to or from another node.                    *)
(***************************************************************************)
C22_EdgesAreTransferredExactly ==
    \A i \in 1..Len(enrich_log) :
        \A pr \in Range(enrich_log[i].pairs) :
            LET c == [label |-> Person, id |-> pr.canonical_id]
                g == enrich_log[i].after_merge
            IN  /\ EdgeSigs(g, c) =
                      EdgeSigs(enrich_log[i].before, c)
                      \cup UNION {EdgeSigs(enrich_log[i].before, d) :
                                  d \in DupsOf(enrich_log[i], pr.canonical_id)}
                /\ \A e, f \in g.edges :
                      (e.src = f.src /\ e.dst = f.dst /\ e.type = f.type
                       /\ c \in {e.src, e.dst}) => e = f

\* the last run_all_enrichments call raised while it was merging a pair
RaisedInPair ==
    /\ epc = "raised"
    /\ abort_log[Len(abort_log)].stage \in {"props", "get_out", "out", "in"}

(***************************************************************************)
(* C23.  A failure while merging one (canonical, duplicate) pair is        *)
(* isolated to that pair: when the call has ended, every other pair of the *)
(* call has been merged (its duplicate is gone from the store) and the     *)
(* derived-relationship pass has run on the resulting graph.               *)
(***************************************************************************)
C23_FailureIsolatedToPair ==
    RaisedInPair =>
        LET a == abort_log[Len(abort_log)]
        IN  /\ \A j \in (1..Len(a.pairs)) \ {a.pair_i} :
                  ~ \E n \in nodes : /\ n.label = Person
                                     /\ n.props["id"] = a.pairs[j].duplicate_id
            /\ Len(enrich_log) >= a.pass
            /\ enrich_log[a.pass].done

(***************************************************************************)
(* C24 (as amended).  In each window flush at most one node upsert         *)
(* statement is executed per entity-type name, and its batch holds every   *)
(* deduplicated item supplied under that name in the window, in input      *)
(* order: the first item of each non-empty id.  Two names with one label   *)
(* give two statements of that label.                                      *)
(***************************************************************************)
C24_OneStatementPerEntityType ==
    \A n \in 1..Len(node_stmts) :
        LET s    == node_stmts[n]
            inp  == WindowInput(s)
            keep == {j \in 1..Len(inp) :
                        /\ Truthy(inp[j])
                        /\ \A h \in 1..(j - 1) :
                              Truthy(inp[h]) => inp[h]["id"] # inp[j]["id"]}
        IN  /\ s.batch = PickInOrder(inp, keep)
            /\ s.label = LabelOf(s.entity_type)
            /\ \A m \in 1..Len(node_stmts) :
                  (m # n /\ node_stmts[m].window = s.window)
                      => node_stmts[m].entity_type # s.entity_type

\* C24 as claimed: in one window flush, at most one statement per node label
C24_OneStatementPerLabel ==
    \A n, m \in 1..Len(node_stmts) :
        (n # m /\ node_stmts[n].window = node_stmts[m].window)
            => node_stmts[n].label # node_stmts[m].label

\* a window of two records that both supply items under one entity-type name,
\* flushed with one statement for it and a second statement of the same label
C24_Witness ==
    \E n, m \in 1..Len(node_stmts) :
        /\ n # m
        /\ node_stmts[n].window = node_stmts[m].window
        /\ node_stmts[n].label = node_stmts[m].label
        /\ node_stmts[n].ok /\ node_stmts[m].ok
        /\ Len(node_stmts[n].batch) < Len(WindowInput(node_stmts[n]))
        /\ \E i, j \in 1..Len(Window(all_docs, node_stmts[n].window, batch_size)) :
              LET w == Window(all_docs, node_stmts[n].window, batch_size)
              IN  /\ i # j
                  /\ SuppliedItems(<<w[i]>>, node_stmts[n].entity_type) # <<>>
                  /\ SuppliedItems(<<w[j]>>, node_stmts[n].entity_type) # <<>>

(***************************************************************************)
(* C25.  In the statements built by                                        *)
(* generate_batch_merge_relationships_query, every relationship of the     *)
(* input is matched against a source node with its own from_label and a    *)
(* target node with its own to_label, also in a type group whose           *)
(* relationships have different endpoint labels.                           *)
(***************************************************************************)
C25_OwnEndpointLabels ==
    qpc = "done" =>
        \A j \in 1..Len(relationships) :
            \E i \in 1..Len(generated) :
                /\ relationships[j] \in Range(generated[i].batch)
                /\ generated[i].from_label = relationships[j].from_label
                /\ generated[i].to_label = relationships[j].to_label

\* the mapper returns, for this document, a node item whose id is missing or
\* empty
HasIdlessItem(doc) ==
    LET res == doc_mapper_func(doc)
    IN  /\ ~res.raises
        /\ \E k \in 1..Len(res.batch) :
              /\ res.batch[k].key # RelationshipsKey
              /\ \E h \in 1..Len(res.batch[k].items) : ~Truthy(res.batch[k].items[h])

(***************************************************************************)
(* C26.  A node item whose id is empty or missing is never sent to the     *)
(* graph store (no statement batch and no stored node is without id);      *)
(* dropping it adds no entry to the error list and does not count its      *)
(* record as failed; the other items supplied in the window under the same *)
(* entity type are still sent in a statement, and upserted when it         *)
(* succeeds.                                                               *)
(***************************************************************************)
C26_IdlessItemsDropped ==
    /\ \A n \in 1..Len(node_stmts) :
          \A k \in 1..Len(node_stmts[n].batch) : Truthy(node_stmts[n].batch[k])
    /\ \A n \in nodes : Truthy(n.props)
    /\ \A k \in 1..Len(validation_errors) :
          \A i \in 1..Len(all_docs) :
              all_docs[i]._id = validation_errors[k].doc_id
                  => ~HasIdlessItem(all_docs[i])
    /\ pc = "summary" =>
          LET live   == {i \in 1..Len(all_docs) : ~FirstCharIs(all_docs[i]._id, "_")}
              idless == {i \in live : HasIdlessItem(all_docs[i])}
              rest   == {i \in live \ idless : ~doc_mapper_func(all_docs[i]).raises}
          IN  total_docs_processed = Cardinality(idless) + Cardinality(rest)
    /\ \A n \in 1..Len(node_stmts) :
          LET s   == node_stmts[n]
              inp == WindowInput(s)
          IN  s.ok => \A j \in 1..Len(inp) :
                         Truthy(inp[j]) =>
                            \E x \in nodes : /\ x.label = s.label
                                             /\ x.props["id"] = inp[j]["id"]
    /\ pc \in {"rels", "stats"} =>
          \A e \in 1..Len(batch_entities) :
              (\E h \in 1..Len(batch_entities[e].items) :
                    Truthy(batch_entities[e].items[h]))
                  => NodeStmtsOf(batch_entities[e].key) # {}

\* a finished run without errors in which a window held a record with id-less
\* person items followed by another record with a person item, and the
\* person statement of that window succeeded
C26_Witness ==
    /\ pc = "ready" /\ run = 1
    /\ validation_errors = <<>>
    /\ total_docs_failed = 0
    /\ \E n \in 1..Len(node_stmts) :
          LET s   == node_stmts[n]
              inp == WindowInput(s)
          IN  /\ s.ok
              /\ \E i, j \in 1..Len(inp) :
                    /\ i < j /\ ~Truthy(inp[i]) /\ Truthy(inp[j])
                    /\ \A h \in 1..(j - 1) : Truthy(inp[h]) => inp[h]["id"] # inp[j]["id"]
    /\ \E i \in 1..Len(all_docs) : HasIdlessItem(all_docs[i])

\* ceil(n / batchSize) for the fetched list
NumWindows == (Len(all_docs) + batch_size - 1) \div batch_size

\* the call has fetched its record list
Fetched == run_log # <<>> /\ LastRun.fetched

\* Done: the call has returned after the summary, the last window it worked
\* on is the last window of the list and every live record went to the mapper
\* once, in fetch order
Done ==
    /\ pc = "ready"
    /\ run_log # <<>> /\ LastRun.returned
    /\ Len(all_docs) > 0 => batch_idx = batch_size * (NumWindows - 1)
    /\ mapper_calls =
          PickInOrder([i \in 1..Len(all_docs) |-> all_docs[i]._id],
                      {i \in 1..Len(all_docs) : ~FirstCharIs(all_docs[i]._id, "_")})

\* one step of the window loop: windows are entered in fetch order, each after
\* the flush of the one before; a window is flushed after its last record was
\* mapped; the summary follows the flush of the last window
WindowStep ==
    /\ (batch_idx' # batch_idx) =>
          /\ pc = "stats" /\ pc' = "map"
          /\ batch_idx' = batch_idx + batch_size
          /\ batch_idx' < Len(all_docs)
          /\ doc_i' = 1
    /\ (pc = "map" /\ pc' # "map") => pc' = "nodes" /\ doc_i = Len(CurrentBatch)
    /\ (pc # "stats" /\ pc' = "stats") => pc \in {"nodes", "rels"}
    /\ (pc = "stats" /\ pc' # "stats") =>
          \/ pc' = "map" /\ batch_idx' = batch_idx + batch_size
          \/ pc' = "summary" /\ batch_idx + batch_size >= Len(all_docs)
    /\ (pc # "summary" /\ pc' = "summary") =>
          \/ pc = "stats"
          \/ pc = "ready" /\ collection = <<>>

(***************************************************************************)
(* C27.  Every sync run over a finite record list with batch size at least *)
(* 1 eventually reaches Done, whatever records fail mapping and whatever   *)
(* flush statements fail, after each of the ceil(n / batchSize) windows of *)
(* the fetched list has been mapped and then flushed once, in fetch order. *)
(***************************************************************************)
C27_RunReachesDone ==
    /\ [][WindowStep]_vars
    /\ Fetched ~> Done

\* the graph holds a node with this label and id
NodeExists(ns, label, id) == \E n \in ns : NodeKey(n) = [label |-> label, id |-> id]

\* one step of the relationship flush
RelFlushStep ==
    pc = "rels" =>
        /\ nodes' = nodes
        /\ validation_errors' = validation_errors
        /\ \A e \in edges' \ edges :
              /\ NodeExists(nodes, e.src.label, e.src.id)
              /\ NodeExists(nodes, e.dst.label, e.dst.id)
              /\ e.type = queries[q_i].rel_type
              /\ \E item \in Range(queries[q_i].batch) :
                    item.from_id = e.src.id /\ item.to_id = e.dst.id
        /\ q_i <= Len(queries) =>
              \A item \in Range(queries[q_i].batch) :
                  (\/ ~NodeExists(nodes, item.from_label, item.from_id)
                   \/ ~NodeExists(nodes, item.to_label, item.to_id))
                      => ~ \E e \in edges' \ edges :
                              /\ e.src = [label |-> item.from_label, id |-> item.from_id]
                              /\ e.dst = [label |-> item.to_label, id |-> item.to_id]

(***************************************************************************)
(* C28.  A relationship flush never creates a node: an edge is created     *)
(* only between two nodes that are in the store when its statement runs;   *)
(* for a relationship with a missing endpoint no edge and no node is       *)
(* created and no error is recorded; the nodes and their properties are    *)
(* left as they were.                                                      *)
(***************************************************************************)
C28_RelFlushCreatesNoNode == [][RelFlushStep]_vars

\* a relationship statement ran before any node statement had written the
\* target of one of its relationships and matched fewer rows than it had
\* relationships; another statement created an edge; the error list is empty
C28_Witness ==
    /\ validation_errors = <<>>
    /\ edges # {}
    /\ \E j \in 1..Len(rel_stmts) :
          /\ rel_stmts[j].ok
          /\ rel_stmts[j].created_count < Len(rel_stmts[j].batch)
          /\ \E item \in Range(rel_stmts[j].batch) :
                ~ \E i \in 1..Len(node_stmts) :
                      /\ node_stmts[i].seq < rel_stmts[j].seq
                      /\ node_stmts[i].ok
                      /\ node_stmts[i].label = item.to_label
                      /\ \E x \in Range(node_stmts[i].batch) : x["id"] = item.to_id

\* the accumulators of one window after its mapping loop, no store involved
RECURSIVE MapWindow(_, _)
MapWindow(acc, docs) ==
    IF docs = <<>> THEN acc
    ELSE LET res == doc_mapper_func(Head(docs))
         IN  IF IsReserved(Head(docs)) \/ res.raises
             THEN MapWindow(acc, Tail(docs))
             ELSE MapWindow(Accumulate(acc.entities, acc.relationships, res.batch),
                            Tail(docs))

\* the node flush of one window on a store that answers
RECURSIVE FlushNodes(_, _)
FlushNodes(ns, ents) ==
    IF ents = <<>> THEN ns
    ELSE LET u == Dedup(Head(ents).items, {})
         IN  IF u = <<>> THEN FlushNodes(ns, Tail(ents))
             ELSE FlushNodes(RunNodeQuery(ns, LabelOf(Head(ents).key), u).nodes,
                             Tail(ents))

\* the relationship flush of one window on a store that answers
RECURSIVE FlushRels(_, _, _)
FlushRels(ns, es, qs) ==
    IF qs = <<>> THEN es
    ELSE FlushRels(ns, RunRelQuery(ns, es, Head(qs)).edges, Tail(qs))

\* the graph a sync call leaves, from the graph g, for the fetched list docs
\* and the batch size bs, when no statement fails
RECURSIVE SyncFrom(_, _, _, _)
SyncFrom(g, docs, idx, bs) ==
    IF idx >= Len(docs) THEN g
    ELSE LET acc == MapWindow([entities |-> <<>>, relationships |-> <<>>],
                              Window(docs, idx, bs))
             ns  == FlushNodes(g.nodes, acc.entities)
             es  == IF acc.relationships = <<>> THEN g.edges
                    ELSE FlushRels(ns, g.edges,
                           generate_batch_merge_relationships_query(acc.relationships))
         IN  SyncFrom([nodes |-> ns, edges |-> es], docs, idx + bs, bs)

NodeIds(g) == {NodeKey(n) : n \in g.nodes}

\* the call has returned and no statement of it failed
CleanRun == pc = "ready" /\ run_log # <<>> /\ LastRun.returned /\ LastRun.clean

(***************************************************************************)
(* C29 (as amended).  For the same fetched record list and deterministic   *)
(* mapper, with no store failure and from the same initial store, the set  *)
(* of node identities (label, id) a sync run produces does not depend on   *)
(* the batch size.  (The graph of the run is the one computed window by    *)
(* window for its own batch size; node properties and edges do depend on   *)
(* the batch size.)                                                        *)
(***************************************************************************)
C29_NodeIdsIndependentOfBatchSize ==
    CleanRun =>
        /\ Graph = SyncFrom(LastRun.before, all_docs, 0, batch_size)
        /\ \A bs \in BatchSizes :
              NodeIds(SyncFrom(LastRun.before, all_docs, 0, bs)) = NodeIds(Graph)

\* C29 as claimed: every batch size gives the same nodes, node properties and
\* edges
C29_GraphIndependentOfBatchSize ==
    CleanRun =>
        \A bs \in BatchSizes : SyncFrom(LastRun.before, all_docs, 0, bs) = Graph

\* a clean run of two windows or more whose graph another batch size would
\* not have produced: the edges differ, or the properties of a node
C29_Witness ==
    /\ CleanRun
    /\ Len(all_docs) > batch_size
    /\ nodes # {}
    /\ \E bs \in BatchSizes :
          LET g == SyncFrom(LastRun.before, all_docs, 0, bs)
          IN  /\ NodeIds(g) = NodeIds(Graph)
              /\ g.edges # edges
    /\ \E bs \in BatchSizes :
          SyncFrom(LastRun.before, all_docs, 0, bs).nodes # nodes

\* the outgoing and incoming loops of one pair, on the rows in the given order
RECURSIVE TransferOutAll(_, _, _, _)
TransferOutAll(ns, es, canonical_id, rows) ==
    IF rows = <<>> THEN es
    ELSE TransferOutAll(ns,
            create_rel_outgoing(ns, es, canonical_id,
                [rel_type |-> Head(rows).type, props |-> Head(rows).props,
                 target_id |-> Head(rows).dst.id]),
            canonical_id, Tail(rows))

RECURSIVE TransferInAll(_, _, _, _)
TransferInAll(ns, es, canonical_id, rows) ==
    IF rows = <<>> THEN es
    ELSE TransferInAll(ns,
            create_rel_incoming(ns, es, canonical_id,
                [rel_type |-> Head(rows).type, props |-> Head(rows).props,
                 source_id |-> Head(rows).src.id]),
            canonical_id, Tail(rows))

\* the graphs the statements 2a-2d of one pair can leave, uninterrupted
MergePairGraphs(g, pr) ==
    LET ns == merge_props_query(g.nodes, pr.canonical_id, pr.duplicate_id)
    IN  UNION {
          LET es1 == TransferOutAll(ns, g.edges, pr.canonical_id, outs)
          IN  {delete_query([nodes |-> ns,
                             edges |-> TransferInAll(ns, es1, pr.canonical_id, ins)],
                            pr.duplicate_id) :
                 ins \in Perms(IncomingOf(ns, es1, pr.duplicate_id))} :
          outs \in Perms(OutgoingOf(ns, g.edges, pr.duplicate_id))}

RECURSIVE MergePairsFrom(_, _)
MergePairsFrom(G, prs) ==
    IF prs = <<>> THEN G
    ELSE MergePairsFrom(UNION {MergePairGraphs(g, Head(prs)) : g \in G}, Tail(prs))

\* the graphs an uninterrupted merge_duplicate_persons can leave from g
MergePass(g) ==
    UNION {MergePairsFrom({g}, prs) : prs \in find_duplicates_query(g.nodes, g.edges)}

\* a call was aborted while merging a pair and the call after it has finished
\* merge_duplicate_persons
ResumedMerge(a) ==
    /\ a.stage \in {"props", "get_out", "out", "in"}
    /\ Len(enrich_log) >= a.pass

(***************************************************************************)
(* C30.  Entity resolution is safe to resume: when                         *)
(* merge_duplicate_persons is aborted by a failure between the store       *)
(* statements of a pair and is then run again to completion, the final     *)
(* graph is a graph an uninterrupted pass would have produced from the     *)
(* original graph, and no edge or property of a duplicate is lost: a       *)
(* surviving Person carries every property key and every edge (type,       *)
(* direction, other node) the duplicate had.                               *)
(***************************************************************************)
C30_ResumeEqualsUninterrupted ==
    \A i \in 1..Len(abort_log) :
        LET a == abort_log[i]
        IN  ResumedMerge(a) =>
              LET final == enrich_log[a.pass].after_merge
              IN  /\ final \in MergePass(a.before)
                  /\ \A pr \in Range(a.pairs) :
                        LET d == PersonOf(a.before, pr.duplicate_id)
                        IN  \E p \in final.nodes :
                              /\ p.label = Person
                              /\ (DOMAIN d.props) \ {"id"} \subseteq DOMAIN p.props
                              /\ EdgeSigs(a.before, NodeKey(d))
                                    \subseteq EdgeSigs(final, NodeKey(p))

====
